---- MODULE Spec2Model ----
(***************************************************************************)
(* A model of the Trello -> Telegram tracker bot (src/app).                *)
(*                                                                         *)
(*  - the change detector: AsyncTrelloBot.check_for_completed_cards        *)
(*    and the in-memory map last_known_states          (specification      *)
(*    SpecPoll);                                                           *)
(*  - pin rotation: CommandHandlers._send_report_with_pin over the         *)
(*    pinned-message document kept by Storage          (SpecPin);          *)
(*  - the retry loop of AsyncTrelloBot.send_message    (SpecSend);         *)
(*  - the reports of ReportGenerator and the card classification they      *)
(*    rest on                                          (SpecDigest);       *)
(*  - AsyncTrelloBot.update_card_progress_tracking over                    *)
(*    card_states.json                                 (SpecTrack).        *)
(*                                                                         *)
(* The parts share no variable (the change detector keeps its state in     *)
(* memory, pin rotation in bot_pinned_messages.json, the tracker in        *)
(* card_states.json), so each is explored under its own specification;     *)
(* Spec is their composition.                                              *)
(***************************************************************************)
EXTENDS Integers, Sequences, FiniteSets, TLC

VARIABLES
    \* ---- change detector (src/app/bot.py) ----
    last_known_states,  \* AsyncTrelloBot.last_known_states: card_key -> state
    poll_pc,            \* position of check_for_completed_cards
    board_idx,          \* index into config.board_ids of the board in hand
    current_cards,      \* cards of the fetched board not yet examined
    events,             \* notifications handed to send_message by the last step
    last,               \* history: the card the last step examined, and the
                        \* notifications sent for the cards of the board before it
    \* ---- pin rotation (src/app/handlers.py, src/app/storage.py) ----
    pinned_messages,    \* data["messages"] of bot_pinned_messages.json
    next_message_id,    \* Telegram: chat -> id the next sent message gets
    clock,              \* datetime.now() as a tick count
    pub,                \* history: what the last publish did
    \* ---- send_message retry loop (src/app/bot.py) ----
    outcomes,           \* outcome of each delivery attempt, were it made
    send_state,         \* loop position, attempts and deliveries made, result
    \* ---- reports and progress tracking (reports.py, trello_api.py, bot.py) ----
    boards,             \* board -> the answer the board API gives for it
    utc_now,            \* the current instant, UTC
    utc_offset,         \* the host's time zone
    card_states,        \* card_states.json: card_key -> ProgressEntry
    observed,           \* history: board -> the cards last fetched for it
    rep,                \* history: what the last report operation did
    \* ---- concurrent tasks on bot_pinned_messages.json (storage.py, handlers.py) ----
    file,               \* the content of the file on disk
    running_tasks,      \* task -> its position and local variables
    started,            \* /ct tasks created so far
    message_count,      \* Telegram: reports delivered to the peer chat so far
    load_seen,          \* history: the content the last load_json_file read
    \* ---- board API requests (trello_api.py) and commands (handlers.py) ----
    api,                \* history: the 401 answers and the requests after them
    chat_log,           \* history: the last command and what it did
    reopened,           \* history: the cards seen outside the done lists
                        \* while they were stored as completed, until they
                        \* are stored as completed again
    unreadable          \* the documents on disk that json.loads cannot parse

vars == <<last_known_states, poll_pc, board_idx, current_cards, events, last,
          pinned_messages, next_message_id, clock, pub, outcomes, send_state,
          boards, utc_now, utc_offset, card_states, observed, rep,
          file, running_tasks, started, message_count, load_seen,
          api, chat_log, reopened, unreadable>>

pollVars == <<last_known_states, poll_pc, board_idx, current_cards, events, last>>
pinVars == <<pinned_messages, next_message_id, clock, pub>>
sendVars == <<outcomes, send_state>>
reportVars == <<boards, utc_now, utc_offset, card_states, observed, rep>>
taskVars == <<file, running_tasks, started, message_count, load_seen>>
extVars == <<api, chat_log, reopened, unreadable>>

\* Python's None, and the Message object the chat API returns for a delivery.
None == [none |-> TRUE]

Message(message_id) == [message_id |-> message_id]

(***************************************************************************)
(* Strings the code searches in are sequences of characters, so that       *)
(* str.lower() and the substring test `a in b` are computed, not assumed.  *)
(***************************************************************************)
lower_char(ch) ==
    CASE ch = "D" -> "d"
      [] ch = "O" -> "o"
      [] ch = "N" -> "n"
      [] ch = "E" -> "e"
      [] ch = "I" -> "i"
      [] ch = "G" -> "g"
      [] ch = "T" -> "t"
      [] OTHER -> ch

lower(s) == [i \in 1..Len(s) |-> lower_char(s[i])]

\* Python's `sub in s` on strings.
contains(s, sub) ==
    \E i \in 0..(Len(s) - Len(sub)) : SubSeq(s, i + 1, i + Len(sub)) = sub

(***************************************************************************)
(* Configuration (config.yaml read by src/app/config.py).                  *)
(***************************************************************************)
board_ids == <<"b1", "b2">>

done_list_names == { <<"D", "o", "n", "e">> }

\* The lists the board API returns: id -> name ("Doing", "Done #", "OLD DONE").
board_lists ==
    [l1 |-> <<"D", "o", "i", "n", "g">>,
     l2 |-> <<"D", "o", "n", "e", " ", "#">>,
     l3 |-> <<"O", "L", "D", " ", "D", "O", "N", "E">>]

ListIds == DOMAIN board_lists

\* idList of a card document that lacks the field: card["idList"] raises KeyError.
Missing == "MISSING"

Members == {"m1", "m2"}

(***************************************************************************)
(* The cards a board can return.  Board b1 has cards 1..MaxBoardCards,     *)
(* board b2 one card.  Card 1 of b1 takes every list and every member      *)
(* set; the other cards take a list of each kind and no members, which     *)
(* keeps the product of the per-card states small.                         *)
(***************************************************************************)
MaxBoardCards == 2

CardIdsOf(b) == IF b = "b1" THEN 1..MaxBoardCards ELSE {1}

CardDocs(b, c) ==
    IF b = "b1" /\ c = 1
    THEN [id : {c}, idList : ListIds, members : SUBSET Members]
         \cup [id : {c}, idList : {Missing}, members : {{}}]
    ELSE [id : {c}, idList : {"l1", "l2", Missing}, members : {{}}]

\* Every answer of get_board_cards with cards among c..n: each card at most
\* once, in the board's order.
RECURSIVE CardLists(_, _, _)
CardLists(b, c, n) ==
    IF c > n
    THEN {<<>>}
    ELSE LET rest == CardLists(b, c + 1, n)
         IN  rest \cup { <<d>> \o r : d \in CardDocs(b, c), r \in rest }

BoardAnswers(b) == CardLists(b, 1, Cardinality(CardIdsOf(b)))

(***************************************************************************)
(* AsyncTrelloBot.send_message: the retry loop.  One loop state is         *)
(* [pc, attempt, attempts, deliveries, result]: `attempt` is the loop      *)
(* variable, `attempts` and `deliveries` count the calls of                *)
(* bot.send_message made and those that delivered.                         *)
(***************************************************************************)
max_retries == 10

AttemptOutcomes == [1..max_retries -> BOOLEAN]

\* The k-th attempt is the first to succeed, or (k = max_retries + 1) none.
FirstSuccessAt(k) == [i \in 1..max_retries |-> i >= k]

\* The outcome vectors the other parts draw from: delivery at the first
\* attempt, after one retry, at the last attempt, or never.
SomeOutcomes ==
    { FirstSuccessAt(k) : k \in {1, 2, max_retries, max_retries + 1} }

send_start ==
    [pc |-> "try", attempt |-> 0, attempts |-> 0, deliveries |-> 0, result |-> None]

\* Mutant: a delivery that does not leave the loop.
send_succeed_continue(s) ==
    [s EXCEPT !.pc = "sleep", !.attempts = @ + 1, !.deliveries = @ + 1,
              !.result = Message(0)]

\* A successful attempt: `return result` leaves the loop at once.
send_succeed(s) ==
    [s EXCEPT !.pc = "done", !.attempts = @ + 1, !.deliveries = @ + 1,
              !.result = Message(0)]

\* A failed attempt: the exception is logged; sleep unless this was the last.
send_fail(s) ==
    IF s.attempt < max_retries - 1
    THEN [s EXCEPT !.pc = "sleep", !.attempts = @ + 1]
    ELSE [s EXCEPT !.pc = "try", !.attempts = @ + 1, !.attempt = @ + 1]

\* One step of the loop under the attempt outcomes `outs`.
send_step(s, outs) ==
    CASE s.pc = "try" /\ s.attempt >= max_retries ->
            [s EXCEPT !.pc = "done", !.result = None]
      [] s.pc = "try" /\ s.attempt < max_retries ->
            IF outs[s.attempt + 1] THEN send_succeed(s) ELSE send_fail(s)
      [] s.pc = "sleep" ->
            [s EXCEPT !.pc = "try", !.attempt = @ + 1]
      [] OTHER -> s

RECURSIVE run_send(_, _)
run_send(s, outs) ==
    IF s.pc = "done" THEN s ELSE run_send(send_step(s, outs), outs)

\* send_message as its callers see it: the final loop state.
send_message(outs) == run_send(send_start, outs)

\* What a call of send_message can come to.
SendResults == { send_message(outs) : outs \in SomeOutcomes }

(***************************************************************************)
(* AsyncTrelloBot.check_for_completed_cards, one card at a time.           *)
(***************************************************************************)
\* list_names.get(card["idList"], "")
list_name(idList) ==
    IF idList \in DOMAIN board_lists THEN board_lists[idList] ELSE <<>>

\* any(done_name.lower() in list_name.lower() for done_name in done_list_names)
is_completed(name) ==
    \E done_name \in done_list_names : contains(lower(name), lower(done_name))

\* "%s_%s" % (board_id, card["id"]); the ids are hexadecimal, so the pair
\* and the formatted string determine each other.
card_key(board_id, card_id) == <<board_id, card_id>>

\* Mutant: the first observation in a done list seeded as not completed.
seed_not_completed(card) ==
    [completed |-> FALSE, list_id |-> card.idList, members |-> card.members]

\* First observation of a card already in a done list.
seed_completed(card) ==
    [completed |-> TRUE, list_id |-> card.idList, members |-> card.members]

\* Mutant: level-triggered, every poll of a done card counts as new.
newly_completed_always(state) == TRUE

\* `elif not self.last_known_states[card_key]["completed"]`
newly_completed(state) == ~state.completed

\* Mutant: the notice is sent and the state is left as it was.
mark_completed_not_stored(state, card) == state

\* Mutant: the completion also stores the members the card has now.
mark_completed_with_members(state, card) ==
    [completed |-> TRUE, list_id |-> card.idList, members |-> card.members]

\* The two assignments that follow the completion notice.
mark_completed(state, card) ==
    [state EXCEPT !.completed = TRUE, !.list_id = card.idList]

\* Mutant: every current member counts as new.
new_member_ids_all(current_members, previous_members) == current_members

\* new_members = current_members - previous_members
new_member_ids(current_members, previous_members) ==
    current_members \ previous_members

\* Mutant: the members of the card are not stored.
not_completed_state_no_members(card) ==
    [completed |-> FALSE, list_id |-> card.idList, members |-> {}]

\* The state written for every card seen outside the done lists.
not_completed_state(card) ==
    [completed |-> FALSE, list_id |-> card.idList, members |-> card.members]

completed_event(key, delivered) ==
    [type |-> "CardCompleted", key |-> key, members |-> {}, delivered |-> delivered]

\* notify_member_assignments: the members of the card whose id is new; no
\* message when there is none.
notify_member_assignments(card, key, ids, delivered) ==
    LET new_members == { m \in card.members : m \in ids }
    IN  IF new_members = {}
        THEN <<>>
        ELSE << [type |-> "MembersAssigned", key |-> key,
                 members |-> new_members, delivered |-> delivered] >>

\* Mutant: a notice that was not delivered leaves the state as it was, so
\* that the next poll tries again.
process_card_retrying(states, board_id, card, delivered) ==
    LET r ==
            LET key == card_key(board_id, card.id)
                seen == key \in DOMAIN states
            IN  IF card.idList = Missing
                THEN [raised |-> TRUE, states |-> states, events |-> <<>>]
                ELSE IF is_completed(list_name(card.idList))
                THEN IF ~seen
                     THEN [raised |-> FALSE,
                           states |-> (key :> seed_completed(card)) @@ states,
                           events |-> <<>>]
                     ELSE IF newly_completed(states[key])
                     THEN [raised |-> FALSE,
                           states |-> [states EXCEPT ![key] = mark_completed(@, card)],
                           events |-> << completed_event(key, delivered) >>]
                     ELSE [raised |-> FALSE, states |-> states, events |-> <<>>]
                ELSE [raised |-> FALSE,
                      states |-> (key :> not_completed_state(card)) @@ states,
                      events |->
                          IF seen
                          THEN LET ids == new_member_ids(card.members, states[key].members)
                               IN  IF ids # {}
                                   THEN notify_member_assignments(card, key, ids, delivered)
                                   ELSE <<>>
                          ELSE <<>>]
    IN  IF r.events # <<>> /\ ~delivered
        THEN [r EXCEPT !.states = states]
        ELSE r

\* Mutant: the cards after one that raised are still examined.
AfterRaise(raised, rest) == rest

\* `except Exception` is outside `for card in current_cards`: a card that
\* raises ends the loop over the cards of its board.
AfterCard(raised, rest) == IF raised THEN <<>> ELSE rest

\* The body of `for card in current_cards`: the new map, the notifications
\* handed to send_message, and whether the body raised.
process_card(states, board_id, card, delivered) ==
    LET key == card_key(board_id, card.id)
        seen == key \in DOMAIN states
    IN  IF card.idList = Missing
        THEN [raised |-> TRUE, states |-> states, events |-> <<>>]
        ELSE IF is_completed(list_name(card.idList))
        THEN IF ~seen
             THEN [raised |-> FALSE,
                   states |-> (key :> seed_completed(card)) @@ states,
                   events |-> <<>>]
             ELSE IF newly_completed(states[key])
             THEN [raised |-> FALSE,
                   states |-> [states EXCEPT ![key] = mark_completed(@, card)],
                   events |-> << completed_event(key, delivered) >>]
             ELSE [raised |-> FALSE, states |-> states, events |-> <<>>]
        ELSE [raised |-> FALSE,
              states |-> (key :> not_completed_state(card)) @@ states,
              events |->
                  IF seen
                  THEN LET ids == new_member_ids(card.members, states[key].members)
                       IN  IF ids # {}
                           THEN notify_member_assignments(card, key, ids, delivered)
                           ELSE <<>>
                  ELSE <<>>]

\* After a board: the next one, or the end of the cycle.
AfterBoard ==
    IF board_idx < Len(board_ids)
    THEN poll_pc' = "fetch" /\ board_idx' = board_idx + 1
    ELSE poll_pc' = "idle" /\ board_idx' = 0

\* run_bot's loop calls check_for_completed_cards.
StartPoll ==
    /\ poll_pc = "idle"
    /\ poll_pc' = "fetch"
    /\ board_idx' = 1
    /\ current_cards' = <<>>
    /\ events' = <<>>
    /\ last' = None
    /\ UNCHANGED last_known_states

\* get_board_info, get_board_cards, get_board_lists: any of them may raise,
\* which the board's `except` logs before the loop goes to the next board.
FetchBoard ==
    /\ poll_pc = "fetch"
    /\ events' = <<>>
    /\ last' = None
    /\ UNCHANGED last_known_states
    /\ \/ /\ current_cards' = <<>>
          /\ AfterBoard
       \/ \E answer \in BoardAnswers(board_ids[board_idx]) \ {<<>>} :
             /\ current_cards' = answer
             /\ poll_pc' = "cards"
             /\ board_idx' = board_idx

\* One iteration of `for card in current_cards`.
ProcessCard ==
    /\ poll_pc = "cards"
    /\ \E sending \in SendResults :
          LET board_id == board_ids[board_idx]
              card == Head(current_cards)
              key == card_key(board_id, card.id)
              r == process_card(last_known_states, board_id, card,
                                sending.result # None)
          IN  /\ last_known_states' = r.states
              /\ events' = r.events
              /\ last' = [key |-> key, card |-> card, raised |-> r.raised,
                          prev |-> IF key \in DOMAIN last_known_states
                                   THEN last_known_states[key] ELSE None,
                          earlier |-> IF last = None THEN {}
                                      ELSE last.earlier
                                           \cup {events[i] : i \in 1..Len(events)},
                          skipped |-> IF r.raised THEN Tail(current_cards)
                                      ELSE <<>>]
              /\ current_cards' = AfterCard(r.raised, Tail(current_cards))
              /\ IF AfterCard(r.raised, Tail(current_cards)) = <<>>
                 THEN AfterBoard
                 ELSE poll_pc' = "cards" /\ board_idx' = board_idx

\* The process is stopped and started again: AsyncTrelloBot.__init__.
Restart ==
    /\ last_known_states' = <<>>
    /\ poll_pc' = "idle"
    /\ board_idx' = 0
    /\ current_cards' = <<>>
    /\ events' = <<>>
    /\ last' = None

(***************************************************************************)
(* Storage (src/app/storage.py) over data["messages"] of the pinned-       *)
(* message document, and pin rotation (src/app/handlers.py).  Chat ids     *)
(* are strings of characters, for the "-100" prefix test.                  *)
(***************************************************************************)
PEER_ID == <<"7">>

REPORT_CHAT_ID == <<"-", "1", "0", "0", "8">>

Chats == {PEER_ID, REPORT_CHAT_ID}

\* A chat that is not the configured peer.
OTHER_CHAT == <<"9">>

\* The reports delivered in a run, over all chats.
MaxMessages == 4

Delivered == (next_message_id[PEER_ID] - 1) + (next_message_id[REPORT_CHAT_ID] - 1)

\* [msg for msg in data["messages"] if msg["chat_id"] == chat_id]
get_stored_pinned_messages(data, chat_id) ==
    SelectSeq(data, LAMBDA msg : msg.chat_id = chat_id)

\* Mutant: the filtered document is never saved.
remove_pinned_message_unsaved(data, chat_id, message_id) == data

remove_pinned_message(data, chat_id, message_id) ==
    SelectSeq(data, LAMBDA msg : ~(msg.chat_id = chat_id /\ msg.message_id = message_id))

\* Nothing is added when the (chat, message) pair is already stored.
add_pinned_message(data, chat_id, message_id, message_url, now) ==
    IF \E i \in 1..Len(data) :
          data[i].chat_id = chat_id /\ data[i].message_id = message_id
    THEN data
    ELSE Append(data, [chat_id |-> chat_id, message_id |-> message_id,
                       pinned_at |-> now, message_url |-> message_url])

\* The empty string that stands for "no previous report".
NoUrl == <<>>

\* max(stored, key=pinned_at): the first record with the greatest pinned_at.
get_last_report_url(data, chat_id) ==
    LET stored == get_stored_pinned_messages(data, chat_id)
    IN  IF stored = <<>>
        THEN NoUrl
        ELSE LET latest == CHOOSE i \in 1..Len(stored) :
                              /\ \A j \in 1..Len(stored) :
                                    stored[j].pinned_at <= stored[i].pinned_at
                              /\ \A j \in 1..(i - 1) :
                                    stored[j].pinned_at < stored[i].pinned_at
             IN  stored[latest].message_url

\* chat_id[4:] if chat_id.startswith("-100") else chat_id
url_chat_id(chat_id) ==
    IF Len(chat_id) >= 4 /\ SubSeq(chat_id, 1, 4) = <<"-", "1", "0", "0">>
    THEN SubSeq(chat_id, 5, Len(chat_id))
    ELSE chat_id

\* "https://t.me/c/%s/%d" % (url_chat_id, message_id)
message_url(chat_id, message_id) == <<url_chat_id(chat_id), message_id>>

\* Mutant: True also when the chat API call raises.
pin_message_always(api_ok) == TRUE

\* _pin_message and _unpin_message: True when the chat API call returns,
\* False when it raises.
pin_message(api_ok) == api_ok

unpin_message(api_ok) == api_ok

\* Mutant: the loop ends at the first unpin that fails.
RECURSIVE unpin_until_failure(_, _, _, _, _, _)
unpin_until_failure(data, chat_id, stored_pinned, api_ok, i, tried) ==
    IF i > Len(stored_pinned)
    THEN [data |-> data, tried |-> tried]
    ELSE LET old_msg_id == stored_pinned[i].message_id
         IN  IF unpin_message(api_ok[i])
             THEN unpin_until_failure(
                      remove_pinned_message(data, chat_id, old_msg_id),
                      chat_id, stored_pinned, api_ok, i + 1, Append(tried, old_msg_id))
             ELSE [data |-> data, tried |-> Append(tried, old_msg_id)]

\* `for msg_data in stored_pinned`: the document after the loop and the
\* message ids an unpin was attempted for, in order.
RECURSIVE unpin_old_messages(_, _, _, _, _, _)
unpin_old_messages(data, chat_id, stored_pinned, api_ok, i, tried) ==
    IF i > Len(stored_pinned)
    THEN [data |-> data, tried |-> tried]
    ELSE LET old_msg_id == stored_pinned[i].message_id
         IN  unpin_old_messages(
                 IF unpin_message(api_ok[i])
                 THEN remove_pinned_message(data, chat_id, old_msg_id)
                 ELSE data,
                 chat_id, stored_pinned, api_ok, i + 1, Append(tried, old_msg_id))

\* Mutant: no early return, the pin goes ahead for message id 0.
pin_new_message_no_return(data, chat_id, result, pin_ok, now) ==
    LET message_id == IF result = None THEN 0 ELSE result.message_id
    IN  [data |-> IF pin_message(pin_ok)
                  THEN add_pinned_message(data, chat_id, message_id,
                           message_url(chat_id, message_id), now)
                  ELSE data,
         pin_tried |-> TRUE, returned |-> result]

\* `if not result: return result`, else pin the new message and record it.
pin_new_message(data, chat_id, result, pin_ok, now) ==
    IF result = None
    THEN [data |-> data, pin_tried |-> FALSE, returned |-> result]
    ELSE [data |-> IF pin_message(pin_ok)
                   THEN add_pinned_message(data, chat_id, result.message_id,
                            message_url(chat_id, result.message_id), now)
                   ELSE data,
          pin_tried |-> TRUE, returned |-> result]

\* Mutant: the report is sent first and the old records are unpinned and
\* removed only once it was delivered.
send_report_with_pin_send_first(data, chat_id, unpin_ok, sending, pin_ok, message_id, now) ==
    LET previous_report_url == get_last_report_url(data, chat_id)
        stored_pinned == get_stored_pinned_messages(data, chat_id)
        result == IF sending.result = None THEN None ELSE Message(message_id)
        unpinned == IF result = None
                    THEN [data |-> data, tried |-> <<>>]
                    ELSE unpin_old_messages(data, chat_id, stored_pinned, unpin_ok, 1, <<>>)
        pinned == pin_new_message(unpinned.data, chat_id, result, pin_ok, now)
    IN  [data |-> pinned.data,
         chat_id |-> chat_id,
         before |-> stored_pinned,
         link |-> previous_report_url,
         unpin_tried |-> unpinned.tried,
         unpin_ok |-> unpin_ok,
         send_tried |-> sending.attempts > 0,
         sent |-> result,
         pin_tried |-> pinned.pin_tried,
         pin_ok |-> pin_ok,
         returned |-> pinned.returned]

\* _send_report_with_pin.  unpin_ok and pin_ok are what the chat API does,
\* sending is what send_message came to, message_id is the id the chat
\* gives the report if it is delivered.
send_report_with_pin(data, chat_id, unpin_ok, sending, pin_ok, message_id, now) ==
    LET previous_report_url == get_last_report_url(data, chat_id)
        stored_pinned == get_stored_pinned_messages(data, chat_id)
        unpinned == unpin_old_messages(data, chat_id, stored_pinned, unpin_ok, 1, <<>>)
        result == IF sending.result = None THEN None ELSE Message(message_id)
        pinned == pin_new_message(unpinned.data, chat_id, result, pin_ok, now)
    IN  [data |-> pinned.data,
         chat_id |-> chat_id,
         before |-> stored_pinned,
         link |-> previous_report_url,
         unpin_tried |-> unpinned.tried,
         unpin_ok |-> unpin_ok,
         send_tried |-> sending.attempts > 0,
         sent |-> result,
         pin_tried |-> pinned.pin_tried,
         pin_ok |-> pin_ok,
         returned |-> pinned.returned]

\* A call of _send_report_with_pin for chat_id, from start to return.
Publish(chat_id) ==
    /\ Delivered < MaxMessages
    /\ \E sending \in SendResults, pin_ok \in BOOLEAN :
       \E unpin_ok \in [1..Len(get_stored_pinned_messages(pinned_messages, chat_id))
                          -> BOOLEAN] :
          LET r == send_report_with_pin(pinned_messages, chat_id, unpin_ok, sending,
                                        pin_ok, next_message_id[chat_id], clock)
          IN  /\ pinned_messages' = r.data
              /\ pub' = [f \in DOMAIN r \ {"data"} |-> r[f]]
              /\ next_message_id' =
                    IF r.sent = None THEN next_message_id
                    ELSE [next_message_id EXCEPT ![chat_id] = @ + 1]
              \* the clock moves on whenever a time was read from it
              /\ clock' = IF r.pin_tried /\ r.pin_ok THEN clock + 1 ELSE clock

\* /ct: ignored unless it comes from the configured peer chat.
CtCommand ==
    \E chat_id \in {PEER_ID, OTHER_CHAT} :
        IF chat_id # PEER_ID THEN UNCHANGED pinVars ELSE Publish(chat_id)

\* The scheduled daily report goes to REPORT_CHAT_ID.
DailyReport == Publish(REPORT_CHAT_ID)

\* /clear_stored: drops the records of the peer chat.
ClearStoredCommand ==
    \E chat_id \in {PEER_ID, OTHER_CHAT} :
        IF chat_id # PEER_ID
        THEN UNCHANGED pinVars
        ELSE /\ pinned_messages' =
                    SelectSeq(pinned_messages, LAMBDA msg : msg.chat_id # chat_id)
             /\ pub' = None
             /\ UNCHANGED <<next_message_id, clock>>

\* One step of a send_message call.
SendStep ==
    /\ send_state.pc # "done"
    /\ send_state' = send_step(send_state, outcomes)
    /\ UNCHANGED outcomes

(***************************************************************************)
(* Dates.  Time is counted in quarters of a day since an arbitrary         *)
(* instant, in UTC.  A date field of a card document is None (absent or    *)
(* empty), BadDate (a string datetime.fromisoformat rejects) or            *)
(* Date(t), the ISO string of instant t with the "Z" suffix the board      *)
(* API writes.  The host's time zone is utc_offset quarters ahead of UTC:  *)
(* datetime.now() gives the local wall clock without a zone, and           *)
(* .replace(tzinfo=None) on a parsed date keeps its UTC wall clock.        *)
(***************************************************************************)
Day == 4

UtcOffsets == {-1, 0, 1}

BadDate == [bad |-> TRUE]

Date(t) == [t |-> t]

\* datetime.fromisoformat(s.replace("Z", "+00:00")): raises ValueError on BadDate.
fromisoformat_raises(s) == s = BadDate

\* ... .replace(tzinfo=None): the UTC wall clock of a parsed date.
naive(s) == s.t

\* datetime.now(): the host's wall clock.
local_now == utc_now + utc_offset

\* timedelta.days: whole days, rounded down.
days(delta) == delta \div Day

(***************************************************************************)
(* Cards as the report paths read them:                                    *)
(* [id, idList, start, due, dateLastActivity, members].  get_board_lists   *)
(* returns board_lists; a card on a list it does not return (Backlog) has  *)
(* the list name "".                                                       *)
(***************************************************************************)
in_progress_list_names == { <<"D", "o", "i", "n", "g">> }

Backlog == "l0"

Card(id, idList, start, due, dateLastActivity, members) ==
    [id |-> id, idList |-> idList, start |-> start, due |-> due,
     dateLastActivity |-> dateLastActivity, members |-> members]

\* any(name.lower() in list_name.lower() for name in in_progress_list_names)
is_in_progress(name) ==
    \E marker \in in_progress_list_names : contains(lower(name), lower(marker))

\* ReportGenerator._is_card_done; card["idList"] raises KeyError when missing.
is_card_done_raises(card) == card.idList = Missing

is_card_done(card) == is_completed(list_name(card.idList))

\* AsyncTrelloAPI.is_card_overdue: compares zone-aware instants.
is_card_overdue_raises(card) ==
    card.due # None /\ fromisoformat_raises(card.due)

is_card_overdue(card) ==
    IF card.due = None THEN FALSE ELSE utc_now > card.due.t

\* The body of get_current_cards' loop for one card: does it raise, and is
\* the card appended to current_cards.
current_card_raises(card) ==
    \/ is_card_overdue_raises(card)
    \/ /\ ~is_card_overdue(card)
       /\ IF card.start # None
          THEN \/ fromisoformat_raises(card.start)
               \/ /\ naive(card.start) <= local_now
                  /\ card.due # None
                  /\ fromisoformat_raises(card.due)
          ELSE card.due = None /\ card.idList = Missing

is_current(card) ==
    /\ ~is_card_overdue(card)
    /\ IF card.start # None
       THEN /\ naive(card.start) <= local_now
            /\ card.due # None => naive(card.due) > local_now
       ELSE /\ card.due = None
            /\ is_in_progress(list_name(card.idList))

\* AsyncTrelloAPI.get_current_cards over the cards of one board.
get_current_cards_raises(cards) ==
    \E i \in 1..Len(cards) : current_card_raises(cards[i])

get_current_cards(cards) == SelectSeq(cards, is_current)

\* Mutant: only a card older than three whole days counts.
is_card_long_running_strict(board_id, card_id, states) ==
    LET key == card_key(board_id, card_id)
    IN  /\ key \in DOMAIN states
        /\ days(local_now - states[key].started_at) > 3

(***************************************************************************)
(* ReportGenerator (src/app/reports.py).  An answer of the board API for   *)
(* one board is [failed, cards]: failed when any of the requests for the   *)
(* board raises.  A composed report is kept as its parts, one record per   *)
(* line group, and the two totals its summary prints.                      *)
(***************************************************************************)
\* is_card_long_running: started_at is the host's wall clock at creation.
is_card_long_running(board_id, card_id, states) ==
    LET key == card_key(board_id, card_id)
    IN  /\ key \in DOMAIN states
        /\ days(local_now - states[key].started_at) >= 3

\* Mutant: done cards are not filtered out.
is_active_always(card) == TRUE

is_active(card) == ~is_card_done(card)

is_overdue_active(card) == is_card_overdue(card) /\ ~is_card_done(card)

\* One "• ..." line of a section: the card and its long-running mark.
RECURSIVE card_lines(_, _, _)
card_lines(board_id, cards, states) ==
    IF cards = <<>>
    THEN <<>>
    ELSE << [id |-> Head(cards).id,
             long_running |-> is_card_long_running(board_id, Head(cards).id, states)] >>
         \o card_lines(board_id, Tail(cards), states)

\* The `try` body of generate_enhanced_daily_report for one board.
daily_board_raises(answer) ==
    \/ answer.failed
    \/ \E i \in 1..Len(answer.cards) : is_card_done_raises(answer.cards[i])
    \/ \E i \in 1..Len(answer.cards) :
          /\ is_active(answer.cards[i])
          /\ is_card_overdue_raises(answer.cards[i])
    \/ get_current_cards_raises(answer.cards)

\* str(e) of the exception the `try` body of a digest raises for a board:
\* the request error of the board API, the KeyError of a card without
\* idList or the ValueError of a date that does not parse.
str_e(answer, cards) ==
    IF answer.failed THEN "ClientResponseError"
    ELSE IF \E i \in 1..Len(cards) : cards[i].idList = Missing THEN "KeyError"
    ELSE "ValueError"

\* "Error getting data for board %s: %s" % (board_id, str(e))
error_line(board_id, e) == [kind |-> "error", board |-> board_id, text |-> e]

daily_board(board_id, answer, states) ==
    IF daily_board_raises(answer)
    THEN [parts |-> << error_line(board_id, str_e(answer, answer.cards)) >>,
          overdue |-> 0, current |-> 0]
    ELSE LET active_cards == SelectSeq(answer.cards, is_active)
             overdue_cards == SelectSeq(active_cards, is_card_overdue)
             current_cards_result == get_current_cards(answer.cards)
             current == SelectSeq(current_cards_result, is_active)
         IN  [parts |->
                  IF overdue_cards # <<>> \/ current # <<>>
                  THEN << [kind |-> "section", board |-> board_id,
                           overdue |-> card_lines(board_id, overdue_cards, states),
                           current |-> card_lines(board_id, current, states)] >>
                  ELSE <<>>,
              overdue |-> Len(overdue_cards),
              current |-> Len(current)]

\* Mutant: the first board that raises ends the report.
RECURSIVE generate_enhanced_daily_report_abort(_, _, _)
generate_enhanced_daily_report_abort(ids, answers, states) ==
    IF ids = <<>>
    THEN [parts |-> <<>>, total_overdue |-> 0, total_current |-> 0]
    ELSE LET b == daily_board(Head(ids), answers[Head(ids)], states)
             rest == generate_enhanced_daily_report_abort(Tail(ids), answers, states)
         IN  IF daily_board_raises(answers[Head(ids)])
             THEN [parts |-> b.parts, total_overdue |-> 0, total_current |-> 0]
             ELSE [parts |-> b.parts \o rest.parts,
                   total_overdue |-> b.overdue + rest.total_overdue,
                   total_current |-> b.current + rest.total_current]

\* generate_enhanced_daily_report over the boards `ids`, in order.
RECURSIVE generate_enhanced_daily_report(_, _, _)
generate_enhanced_daily_report(ids, answers, states) ==
    IF ids = <<>>
    THEN [parts |-> <<>>, total_overdue |-> 0, total_current |-> 0]
    ELSE LET b == daily_board(Head(ids), answers[Head(ids)], states)
             rest == generate_enhanced_daily_report(Tail(ids), answers, states)
         IN  [parts |-> b.parts \o rest.parts,
              total_overdue |-> b.overdue + rest.total_overdue,
              total_current |-> b.current + rest.total_current]

\* The categorisation of one card of the user in get_user_tasks:
\* "skip" (done), "overdue", "current" or "none".
user_task_raises(card) ==
    \/ card.idList = Missing
    \/ ~is_card_done(card) /\ is_card_overdue_raises(card)

should_be_current(card) ==
    IF card.start # None
    THEN fromisoformat_raises(card.start) \/ ~(naive(card.start) > local_now)
    ELSE IF card.due # None
    THEN fromisoformat_raises(card.due) \/ ~(days(naive(card.due) - local_now) > 3)
    ELSE TRUE

is_user_overdue(card) == ~is_card_done(card) /\ is_card_overdue(card)

is_user_current(card) ==
    /\ ~is_card_done(card)
    /\ ~is_card_overdue(card)
    /\ is_in_progress(list_name(card.idList))
    /\ should_be_current(card)

\* get_user_tasks for the board member trello_username, over the boards `ids`:
\* the cards listed, and the boards whose `try` body raised (logged only).
RECURSIVE get_user_tasks(_, _, _)
get_user_tasks(trello_username, ids, answers) ==
    IF ids = <<>>
    THEN [overdue |-> <<>>, current |-> <<>>, skipped |-> {}]
    ELSE LET board_id == Head(ids)
             answer == answers[board_id]
             rest == get_user_tasks(trello_username, Tail(ids), answers)
             is_user_card(card) == trello_username \in card.members
             user_cards == SelectSeq(answer.cards, is_user_card)
             \* the lists grow card by card until one raises
             upto == IF \E i \in 1..Len(user_cards) : user_task_raises(user_cards[i])
                     THEN (CHOOSE i \in 1..Len(user_cards) :
                              /\ user_task_raises(user_cards[i])
                              /\ \A j \in 1..(i - 1) : ~user_task_raises(user_cards[j])) - 1
                     ELSE Len(user_cards)
             done == SubSeq(user_cards, 1, upto)
             tag(cards) == [i \in 1..Len(cards) |-> <<board_id, cards[i].id>>]
         IN  IF answer.failed
             THEN [rest EXCEPT !.skipped = @ \cup {board_id}]
             ELSE [overdue |-> tag(SelectSeq(done, is_user_overdue)) \o rest.overdue,
                   current |-> tag(SelectSeq(done, is_user_current)) \o rest.current,
                   skipped |-> IF upto < Len(user_cards)
                               THEN rest.skipped \cup {board_id}
                               ELSE rest.skipped]

\* The cards get_all_board_cards_including_archived returns (filter=all).
all_board_cards(answer) == answer.cards \o answer.archived

week_start == local_now - 7 * Day

\* One card of `for card in all_cards`: is it appended to completed_this_week.
completed_this_week(card) ==
    /\ is_card_done(card)
    /\ card.dateLastActivity # None
    /\ ~fromisoformat_raises(card.dateLastActivity)
    /\ naive(card.dateLastActivity) >= week_start

\* The `try` body of generate_weekly_stats_report for one board.
weekly_board_raises(answer) ==
    \/ answer.failed
    \/ \E i \in 1..Len(all_board_cards(answer)) :
          all_board_cards(answer)[i].idList = Missing
    \/ \E i \in 1..Len(answer.cards) : is_card_overdue_raises(answer.cards[i])

\* list.sort(key=completed_date, reverse=True): stable, newest first.
RECURSIVE insert_task(_, _)
insert_task(task, sorted) ==
    IF sorted = <<>>
    THEN << task >>
    ELSE IF Head(sorted).completed_date >= task.completed_date
    THEN << Head(sorted) >> \o insert_task(task, Tail(sorted))
    ELSE << task >> \o sorted

RECURSIVE sort_tasks(_)
sort_tasks(tasks) ==
    IF tasks = <<>>
    THEN <<>>
    ELSE insert_task(tasks[Len(tasks)], sort_tasks(SubSeq(tasks, 1, Len(tasks) - 1)))

weekly_board(board_id, answer) ==
    IF weekly_board_raises(answer)
    THEN [parts |-> << error_line(board_id, str_e(answer, all_board_cards(answer))) >>,
          completed |-> <<>>, overdue |-> 0]
    ELSE LET completed == SelectSeq(all_board_cards(answer), completed_this_week)
             overdue_cards == SelectSeq(answer.cards, is_overdue_active)
         IN  [parts |->
                  IF completed # <<>> \/ overdue_cards # <<>>
                  THEN << [kind |-> "stats", board |-> board_id,
                           completed |-> Len(completed),
                           overdue |-> Len(overdue_cards)] >>
                  ELSE <<>>,
              completed |->
                  [i \in 1..Len(completed) |->
                      [board |-> board_id, id |-> completed[i].id,
                       completed_date |-> naive(completed[i].dateLastActivity)]],
              overdue |-> Len(overdue_cards)]

\* The loop of generate_weekly_stats_report over the boards `ids`.
RECURSIVE weekly_boards(_, _)
weekly_boards(ids, answers) ==
    IF ids = <<>>
    THEN [parts |-> <<>>, completed |-> <<>>, total_overdue |-> 0]
    ELSE LET b == weekly_board(Head(ids), answers[Head(ids)])
             rest == weekly_boards(Tail(ids), answers)
         IN  [parts |-> b.parts \o rest.parts,
              completed |-> b.completed \o rest.completed,
              total_overdue |-> b.overdue + rest.total_overdue]

generate_weekly_stats_report(ids, answers) ==
    LET r == weekly_boards(ids, answers)
    IN  [parts |-> r.parts,
         total_completed |-> Len(r.completed),
         total_overdue |-> r.total_overdue,
         completed_tasks |-> sort_tasks(r.completed)]

(***************************************************************************)
(* AsyncTrelloBot.update_card_progress_tracking over card_states.json:     *)
(* card_key -> [started_at, board_id].                                     *)
(***************************************************************************)
\* The body of `for card in cards`, for a card that has its idList.
\* Mutant: every observation on an in-progress list restarts the entry.
track_card_restart(states, board_id, card) ==
    LET key == card_key(board_id, card.id)
    IN  IF is_in_progress(list_name(card.idList))
        THEN (key :> [started_at |-> local_now, board_id |-> board_id]) @@ states
        ELSE [k \in DOMAIN states \ {key} |-> states[k]]

track_card(states, board_id, card) ==
    LET key == card_key(board_id, card.id)
    IN  IF is_in_progress(list_name(card.idList))
        THEN IF key \notin DOMAIN states
             THEN (key :> [started_at |-> local_now, board_id |-> board_id]) @@ states
             ELSE states
        ELSE [k \in DOMAIN states \ {key} |-> states[k]]

\* `for card in cards` until the end or the first card that raises.
RECURSIVE track_cards(_, _, _)
track_cards(states, board_id, cards) ==
    IF cards = <<>>
    THEN [states |-> states, raised |-> FALSE]
    ELSE IF Head(cards).idList = Missing
    THEN [states |-> states, raised |-> TRUE]
    ELSE track_cards(track_card(states, board_id, Head(cards)), board_id, Tail(cards))

\* Mutant: the first board that fails ends the loop.
RECURSIVE update_card_progress_tracking_abort(_, _, _)
update_card_progress_tracking_abort(states, ids, answers) ==
    IF ids = <<>>
    THEN [states |-> states, completed |-> {}, errors |-> {}]
    ELSE LET board_id == Head(ids)
             answer == answers[board_id]
             r == IF answer.failed
                  THEN [states |-> states, raised |-> TRUE]
                  ELSE track_cards(states, board_id, answer.cards)
             rest == update_card_progress_tracking_abort(r.states, Tail(ids), answers)
         IN  IF r.raised
             THEN [states |-> r.states, completed |-> {}, errors |-> {board_id}]
             ELSE [rest EXCEPT !.completed = @ \cup {board_id}]

\* The loop over the boards `ids`: the map that is saved, the boards whose
\* loop body ran to its end and those whose `except` logged an error.
RECURSIVE update_card_progress_tracking(_, _, _)
update_card_progress_tracking(states, ids, answers) ==
    IF ids = <<>>
    THEN [states |-> states, completed |-> {}, errors |-> {}]
    ELSE LET board_id == Head(ids)
             answer == answers[board_id]
             r == IF answer.failed
                  THEN [states |-> states, raised |-> TRUE]
                  ELSE track_cards(states, board_id, answer.cards)
             rest == update_card_progress_tracking(r.states, Tail(ids), answers)
         IN  [states |-> rest.states,
              completed |-> IF r.raised THEN rest.completed
                            ELSE rest.completed \cup {board_id},
              errors |-> IF r.raised THEN rest.errors \cup {board_id}
                         ELSE rest.errors]

(***************************************************************************)
(* The answers the report paths are run on.  Card 1 of board b1 takes      *)
(* every list kind and every date of StartDates, DueDates and              *)
(* ActivityDates (instants relative to utc_now = 0); the other cards are  *)
(* fixed documents that are there or not.                                  *)
(***************************************************************************)
StartDates == {None, BadDate, Date(-2 * Day), Date(1), Date(Day)}

DueDates ==
    {None, BadDate, Date(-Day), Date(1), Date(Day), Date(3 * Day + 1),
     Date(4 * Day + 1)}

ActivityDates ==
    {None, BadDate, Date(-7 * Day - 1), Date(-7 * Day), Date(0), Date(1)}

Answer(failed, cards, archived) ==
    [failed |-> failed, cards |-> cards, archived |-> archived]

FailedAnswer == Answer(TRUE, <<>>, <<>>)

\* A card on "Doing" without dates, assigned to nobody.
PlainCard(id) == Card(id, "l1", None, None, None, {})

\* Every order-preserving choice of the cards PlainCard(c..n).
RECURSIVE PlainCards(_, _)
PlainCards(c, n) ==
    IF c > n
    THEN {<<>>}
    ELSE LET rest == PlainCards(c + 1, n)
         IN  rest \cup { <<PlainCard(c)>> \o r : r \in rest }

DigestAnswers(b) ==
    IF b = "b1"
    THEN {FailedAnswer} \cup
         { Answer(FALSE, <<Card(1, l, s, d, a, {"m1"})>> \o more, <<>>) :
             l \in {"l1", "l2", Backlog}, s \in StartDates, d \in DueDates,
             a \in ActivityDates, more \in PlainCards(2, MaxBoardCards) }
    ELSE {FailedAnswer,
          Answer(FALSE, <<>>, <<>>),
          Answer(FALSE, <<Card(1, "l1", None, Date(-Day), None, {"m1"})>>,
                        <<Card(2, "l2", None, None, Date(-Day), {})>>)}

\* What the tracker is run on: only the list of a card matters to it.
TrackAnswers(b) ==
    IF b = "b1"
    THEN {FailedAnswer} \cup
         { Answer(FALSE, first \o more, <<>>) :
             first \in {<<>>} \cup
                 { <<Card(1, l, None, None, None, {})>> :
                     l \in {"l1", "l2", Backlog, Missing} },
             more \in PlainCards(2, MaxBoardCards) }
    ELSE {FailedAnswer, Answer(FALSE, <<>>, <<>>)} \cup
         { Answer(FALSE, <<Card(1, l, None, None, None, {})>>, <<>>) :
             l \in {"l1", "l2"} }

Boards == {board_ids[i] : i \in 1..Len(board_ids)}

NotObserved == [seen |-> FALSE, cards |-> <<>>]

\* The latest cards get_board_cards returned for each board.
observe(seen, answers) ==
    [b \in Boards |->
        IF answers[b].failed THEN seen[b]
        ELSE [seen |-> TRUE, cards |-> answers[b].cards]]

\* The board member whose tasks /mt lists.
trello_username == "m1"

(***************************************************************************)
(* The report operations, each on the answers the board API gives it.      *)
(***************************************************************************)
\* /ct: generate_enhanced_daily_report (the publish that follows is CtCommand).
CtReport(answers) ==
    /\ rep' = [op |-> "ct",
               report |-> generate_enhanced_daily_report(board_ids, answers, card_states)]
    /\ observed' = observe(observed, answers)
    /\ UNCHANGED <<boards, utc_now, utc_offset, card_states>>

\* /wr and send_weekly_report: generate_weekly_stats_report.
WrCommand(answers) ==
    /\ rep' = [op |-> "wr",
               report |-> generate_weekly_stats_report(board_ids, answers)]
    /\ observed' = observe(observed, answers)
    /\ UNCHANGED <<boards, utc_now, utc_offset, card_states>>

\* /mt: get_user_tasks for the sender.
MtCommand(answers) ==
    /\ rep' = [op |-> "mt",
               tasks |-> get_user_tasks(trello_username, board_ids, answers)]
    /\ observed' = observe(observed, answers)
    /\ UNCHANGED <<boards, utc_now, utc_offset, card_states>>

\* send_daily_report: update_card_progress_tracking, then the report over
\* the saved map (the publish that follows is DailyReport).
SendDailyReport(answers) ==
    LET r == update_card_progress_tracking(card_states, board_ids, answers)
    IN  /\ card_states' = r.states
        /\ rep' = [op |-> "daily", at |-> local_now,
                   completed |-> r.completed, errors |-> r.errors,
                   report |-> generate_enhanced_daily_report(board_ids, answers, r.states)]
        /\ observed' = observe(observed, answers)
        /\ UNCHANGED <<boards, utc_now, utc_offset>>

(***************************************************************************)
(* The tasks that work on bot_pinned_messages.json, step by step.  Every   *)
(* /ct and /clear_stored is run by asyncio.create_task, so the tasks       *)
(* interleave at each await; a step below is the code between two awaits.  *)
(* A task is a /ct publish for the peer chat or a /clear_stored.  The chat *)
(* API answers every call of these tasks (its failures are the subject of  *)
(* the publish above).                                                     *)
(***************************************************************************)
TaskIds == {1, 2}

\* The /ct tasks created in a run.
MaxReports == 2

\* The file right after open(filename, "w"): empty, not a JSON document.
Truncated == [truncated |-> TRUE, messages |-> <<>>]

\* The file after json.dumps(data) was written to it and it was closed.
Written(data) == [truncated |-> FALSE, messages |-> data]

\* {"messages": []}
default_value == <<>>

\* Mutant: the records listed in the file are returned although it does
\* not parse.
load_json_file_salvaging(content) == content.messages

\* json.loads raises on the empty file and the default is returned.
load_json_file(content) ==
    IF content.truncated THEN default_value ELSE content.messages

Idle == [pc |-> "idle", data |-> <<>>, stored |-> <<>>, message_id |-> 0]

\* A task with this position, the other fields as they are.
At(t, pc) == [running_tasks EXCEPT ![t].pc = pc]

\* The handler creates the task: _handle_ct_command_async begins.
StartCt(t) ==
    /\ running_tasks[t].pc = "idle"
    /\ started < MaxReports
    /\ running_tasks' = At(t, "get_last_report_url")
    /\ started' = started + 1
    /\ UNCHANGED <<file, message_count, load_seen>>

\* previous_report_url = await self.storage.get_last_report_url(chat_id)
GetLastReportUrl(t) ==
    /\ running_tasks[t].pc = "get_last_report_url"
    /\ load_seen' = file
    /\ running_tasks' = At(t, "get_stored")
    /\ UNCHANGED <<file, started, message_count>>

\* stored_pinned = await self.storage.get_stored_pinned_messages(chat_id)
GetStored(t) ==
    /\ running_tasks[t].pc = "get_stored"
    /\ load_seen' = file
    /\ running_tasks' = [running_tasks EXCEPT ![t].pc = "unpin",
                              ![t].stored = get_stored_pinned_messages(
                                                load_json_file(file), PEER_ID)]
    /\ UNCHANGED <<file, started, message_count>>

\* `for msg_data in stored_pinned`: the unpin call, or the end of the loop
\* and the delivery of the report.
UnpinOrSend(t) ==
    /\ running_tasks[t].pc = "unpin"
    /\ IF running_tasks[t].stored # <<>>
       THEN /\ running_tasks' = At(t, "remove_load")
            /\ UNCHANGED message_count
       ELSE /\ running_tasks' = [running_tasks EXCEPT ![t].pc = "pin",
                                      ![t].message_id = message_count + 1]
            /\ message_count' = message_count + 1
    /\ UNCHANGED <<file, started, load_seen>>

\* remove_pinned_message: data = await self.load_pinned_messages()
RemoveLoad(t) ==
    /\ running_tasks[t].pc = "remove_load"
    /\ load_seen' = file
    /\ running_tasks' = [running_tasks EXCEPT ![t].pc = "remove_open",
                              ![t].data = remove_pinned_message(
                                              load_json_file(file), PEER_ID,
                                              Head(running_tasks[t].stored).message_id)]
    /\ UNCHANGED <<file, started, message_count>>

\* save_json_file: aiofiles.open(filename, "w")
SaveOpen(t) ==
    /\ running_tasks[t].pc \in {"remove_open", "add_open", "clear_open"}
    /\ file' = Truncated
    /\ running_tasks' = At(t, CASE running_tasks[t].pc = "remove_open" -> "remove_write"
                        [] running_tasks[t].pc = "add_open" -> "add_write"
                        [] running_tasks[t].pc = "clear_open" -> "clear_write")
    /\ UNCHANGED <<started, message_count, load_seen>>

\* save_json_file: the write and the close, then the next stored record.
RemoveWrite(t) ==
    /\ running_tasks[t].pc = "remove_write"
    /\ file' = Written(running_tasks[t].data)
    /\ running_tasks' = [running_tasks EXCEPT ![t].pc = "unpin", ![t].stored = Tail(@)]
    /\ UNCHANGED <<started, message_count, load_seen>>

\* if await self._pin_message(chat_id, message_id)
PinNew(t) ==
    /\ running_tasks[t].pc = "pin"
    /\ running_tasks' = At(t, "add_load")
    /\ UNCHANGED <<file, started, message_count, load_seen>>

\* add_pinned_message: the load, the duplicate check and the append.
AddLoad(t) ==
    /\ running_tasks[t].pc = "add_load"
    /\ load_seen' = file
    /\ LET data == load_json_file(file)
           new_data == add_pinned_message(data, PEER_ID, running_tasks[t].message_id,
                           message_url(PEER_ID, running_tasks[t].message_id), message_count)
       IN  running_tasks' = IF new_data = data
                    THEN [running_tasks EXCEPT ![t] = Idle]
                    ELSE [running_tasks EXCEPT ![t].pc = "add_open", ![t].data = new_data]
    /\ UNCHANGED <<file, started, message_count>>

\* save_json_file: the write and the close; the task ends.
AddWrite(t) ==
    /\ running_tasks[t].pc = "add_write"
    /\ file' = Written(running_tasks[t].data)
    /\ running_tasks' = [running_tasks EXCEPT ![t] = Idle]
    /\ UNCHANGED <<started, message_count, load_seen>>

\* /clear_stored: data = await self.storage.load_pinned_messages()
ClearLoad(t) ==
    /\ running_tasks[t].pc = "idle"
    /\ load_seen' = file
    /\ running_tasks' = [running_tasks EXCEPT ![t].pc = "clear_open",
                              ![t].data = SelectSeq(load_json_file(file),
                                              LAMBDA msg : msg.chat_id # PEER_ID)]
    /\ UNCHANGED <<file, started, message_count>>

\* save_json_file: the write and the close; the confirmation is sent.
ClearWrite(t) ==
    /\ running_tasks[t].pc = "clear_write"
    /\ file' = Written(running_tasks[t].data)
    /\ running_tasks' = [running_tasks EXCEPT ![t] = Idle]
    /\ UNCHANGED <<started, message_count, load_seen>>

\* The process dies and is started again: the tasks are gone, the file is
\* what it was.
Crash ==
    /\ \E t \in TaskIds : running_tasks[t].pc # "idle"
    /\ running_tasks' = [t \in TaskIds |-> Idle]
    /\ UNCHANGED <<file, started, message_count, load_seen>>

InitTasks ==
    /\ file = Written(default_value)
    /\ running_tasks = [t \in TaskIds |-> Idle]
    /\ started = 0
    /\ message_count = 0
    /\ load_seen = Written(default_value)

(***************************************************************************)
(* The change detector with the status the board API answers a board's     *)
(* requests with.  raise_for_status raises for 401 and 404 alike, and the  *)
(* board's `except` logs it before the loop goes to the next board.        *)
(***************************************************************************)
Statuses == {200, 401, 404}

\* No 401 was answered and no fetch has failed yet.  `failed` holds the
\* boards whose last fetch failed, `recovered` tells that the fetch of the
\* board in hand succeeded after one that failed.
NoRejection ==
    [rejected |-> FALSE, later |-> FALSE, failed |-> {}, recovered |-> FALSE]

\* Mutant: a board that cannot be fetched loses its stored states.
FetchedOrForgotten(status) ==
    /\ poll_pc = "fetch"
    /\ events' = <<>>
    /\ last' = None
    /\ IF status = 200
       THEN /\ UNCHANGED last_known_states
            /\ \E answer \in BoardAnswers(board_ids[board_idx]) :
               IF answer = <<>>
               THEN current_cards' = <<>> /\ AfterBoard
               ELSE /\ current_cards' = answer
                    /\ poll_pc' = "cards"
                    /\ board_idx' = board_idx
       ELSE /\ last_known_states' =
                  [key \in {k \in DOMAIN last_known_states :
                               k[1] # board_ids[board_idx]} |->
                      last_known_states[key]]
            /\ current_cards' = <<>>
            /\ AfterBoard

\* get_board_info, get_board_cards, get_board_lists through _make_request,
\* answered with this status.
Fetched(status) ==
    /\ poll_pc = "fetch"
    /\ events' = <<>>
    /\ last' = None
    /\ UNCHANGED last_known_states
    /\ IF status = 200
       THEN \E answer \in BoardAnswers(board_ids[board_idx]) :
               IF answer = <<>>
               THEN current_cards' = <<>> /\ AfterBoard
               ELSE /\ current_cards' = answer
                    /\ poll_pc' = "cards"
                    /\ board_idx' = board_idx
       ELSE current_cards' = <<>> /\ AfterBoard

\* The fetch of a board, with the record of the 401 answers.
FetchBoardRequest ==
    \E status \in Statuses :
        /\ Fetched(status)
        /\ api' = [api EXCEPT !.rejected = @ \/ status = 401,
                              !.later = @ \/ api.rejected]

\* The fetch of a board, with the record of the boards that failed.
FetchBoardOutage ==
    \E status \in {200, 404} :
        /\ Fetched(status)
        /\ api' = [api EXCEPT
                      !.failed = IF status = 200
                                 THEN @ \ {board_ids[board_idx]}
                                 ELSE @ \cup {board_ids[board_idx]},
                      !.recovered = status = 200 /\ board_ids[board_idx] \in api.failed]

\* The operator stops the process, renews the credentials and starts it.
OperatorRestart ==
    /\ Restart
    /\ api' = NoRejection

\* Nothing was requested and no command has come in.
InitExt ==
    /\ api = NoRejection
    /\ chat_log = None
    /\ reopened = {}
    /\ unreadable = {}

InitPoll ==
    /\ last_known_states = <<>>
    /\ poll_pc = "idle"
    /\ board_idx = 0
    /\ current_cards = <<>>
    /\ events = <<>>
    /\ last = None

InitPin ==
    /\ pinned_messages = <<>>
    /\ next_message_id = [chat_id \in Chats |-> 1]
    /\ clock = 0
    /\ pub = None

InitSend ==
    /\ outcomes = FirstSuccessAt(1)
    /\ send_state = send_start

\* No card is tracked and nothing was fetched yet.
InitReport ==
    /\ boards = [b \in Boards |-> Answer(FALSE, <<>>, <<>>)]
    /\ utc_now = 0
    /\ utc_offset = 0
    /\ card_states = <<>>
    /\ observed = [b \in Boards |-> NotObserved]
    /\ rep = None

Init == InitPoll /\ InitPin /\ InitSend /\ InitReport /\ InitTasks /\ InitExt

NextPoll ==
    \/ StartPoll /\ UNCHANGED <<pinVars, sendVars, reportVars, taskVars, extVars>>
    \/ FetchBoard /\ UNCHANGED <<pinVars, sendVars, reportVars, taskVars, extVars>>
    \/ ProcessCard /\ UNCHANGED <<pinVars, sendVars, reportVars, taskVars, extVars>>
    \/ Restart /\ UNCHANGED <<pinVars, sendVars, reportVars, taskVars, extVars>>

SpecPoll == Init /\ [][NextPoll]_vars

NextPin ==
    \/ CtCommand /\ UNCHANGED <<pollVars, sendVars, reportVars, taskVars, extVars>>
    \/ DailyReport /\ UNCHANGED <<pollVars, sendVars, reportVars, taskVars, extVars>>
    \/ ClearStoredCommand /\ UNCHANGED <<pollVars, sendVars, reportVars, taskVars, extVars>>

SpecPin == Init /\ [][NextPin]_vars

\* A call of send_message under every vector of attempt outcomes.
InitSendAny ==
    /\ InitPoll
    /\ InitPin
    /\ InitReport
    /\ InitTasks
    /\ InitExt
    /\ outcomes \in AttemptOutcomes
    /\ send_state = send_start

NextSend == SendStep /\ UNCHANGED <<pollVars, pinVars, reportVars, taskVars, extVars>>

\* The event loop keeps running the coroutine: a call that can step does.
SpecSend == InitSendAny /\ [][NextSend]_vars /\ WF_vars(NextSend)

\* One answer per board.
DigestInputs ==
    { (board_ids[1] :> a1) @@ (board_ids[2] :> a2) :
        a1 \in DigestAnswers(board_ids[1]), a2 \in DigestAnswers(board_ids[2]) }

TrackInputs ==
    { (board_ids[1] :> a1) @@ (board_ids[2] :> a2) :
        a1 \in TrackAnswers(board_ids[1]), a2 \in TrackAnswers(board_ids[2]) }

\* Card 1 of b1 untracked, or tracked since three days before local noon 0.
DigestCardStates ==
    { <<>>,
      card_key("b1", 1) :> [started_at |-> -3 * Day, board_id |-> "b1"] }

\* The reports under every answer of the boards, time zone and tracked map.
InitDigestAny ==
    /\ InitPoll
    /\ InitPin
    /\ InitSend
    /\ InitTasks
    /\ InitExt
    /\ boards \in DigestInputs
    /\ utc_now = 0
    /\ utc_offset \in UtcOffsets
    /\ card_states \in DigestCardStates
    /\ observed = [b \in Boards |-> NotObserved]
    /\ rep = None

NextDigest ==
    \/ CtReport(boards) /\ UNCHANGED <<pollVars, pinVars, sendVars, taskVars, extVars>>
    \/ WrCommand(boards) /\ UNCHANGED <<pollVars, pinVars, sendVars, taskVars, extVars>>
    \/ MtCommand(boards) /\ UNCHANGED <<pollVars, pinVars, sendVars, taskVars, extVars>>

SpecDigest == InitDigestAny /\ [][NextDigest]_vars

NextTrack ==
    \/ /\ \E answers \in TrackInputs : SendDailyReport(answers)
       /\ UNCHANGED <<pollVars, pinVars, sendVars, taskVars, extVars>>
    \/ /\ \E answers \in TrackInputs : CtReport(answers)
       /\ UNCHANGED <<pollVars, pinVars, sendVars, taskVars, extVars>>

SpecTrack == Init /\ [][NextTrack]_vars

(***************************************************************************)
(* The publishes on a store that an earlier version of the program wrote.  *)
(* A pinned_at string is stood for by its rank in string order: an ISO     *)
(* timestamp by the tick of the clock it was taken at, the default         *)
(* "unknown" by a rank above every tick (the letter u sorts after every    *)
(* digit).                                                                 *)
(***************************************************************************)
unknown == MaxMessages + 1

\* The document of the old format: chat id -> list of messages, as the
\* items of the dict in file order.
OldFormat(items) == [format |-> "old", items |-> items]

\* {"messages": [...]}
NewFormat(messages) == [format |-> "new", messages |-> messages]

\* The records the old-format conversion makes of one chat's list.
convert_messages(chat_id, messages) ==
    [i \in 1..Len(messages) |->
        [chat_id |-> chat_id,
         message_id |-> messages[i].message_id,
         pinned_at |-> IF "pinned_at" \in DOMAIN messages[i]
                       THEN messages[i].pinned_at ELSE unknown,
         message_url |-> IF "message_url" \in DOMAIN messages[i]
                         THEN messages[i].message_url ELSE NoUrl]]

\* `for chat_id, messages in data.items()`
RECURSIVE convert_items(_)
convert_items(items) ==
    IF items = <<>>
    THEN <<>>
    ELSE convert_messages(Head(items).chat_id, Head(items).messages)
         \o convert_items(Tail(items))

\* load_pinned_messages: data["messages"] of the document it returns (and
\* saves, when it converted the old format).
load_pinned_messages(data) ==
    IF data.format = "new"
    THEN data.messages
    ELSE IF \E i \in 1..Len(data.items) : Head(data.items[i].chat_id) = "-"
    THEN convert_items(data.items)
    ELSE <<>>

\* A message stored by the earlier version, without and with the fields
\* that came later.
OldMessages(chat_id) ==
    { <<>>,
      << [message_id |-> 1] >>,
      << [message_id |-> 1, pinned_at |-> 0,
          message_url |-> message_url(chat_id, 1)] >> }

\* The files the program can find at its start.
StoredDocuments ==
    { NewFormat(<<>>) }
    \cup { OldFormat(<< [chat_id |-> REPORT_CHAT_ID, messages |-> m1],
                        [chat_id |-> PEER_ID, messages |-> m2] >>) :
               m1 \in OldMessages(REPORT_CHAT_ID), m2 \in OldMessages(PEER_ID) }
    \cup { OldFormat(<< [chat_id |-> PEER_ID, messages |-> m2] >>) :
               m2 \in OldMessages(PEER_ID) }

\* The store as the first load finds it; message 1 of each chat was sent
\* by the earlier version and the clock is past its pinned_at.
InitStored ==
    /\ InitPoll
    /\ InitSend
    /\ InitReport
    /\ InitTasks
    /\ InitExt
    /\ pinned_messages \in {load_pinned_messages(data) : data \in StoredDocuments}
    /\ next_message_id = [chat_id \in Chats |-> 2]
    /\ clock = 1
    /\ pub = None

SpecStored == InitStored /\ [][NextPin]_vars

(***************************************************************************)
(* The tracker while time passes.  Card 1 of b1 is on an in-progress list  *)
(* or on a done list, with a start date that is absent, in the future or   *)
(* malformed and a due date that is absent or past; card 2 of b1 and card  *)
(* 1 of b2 are plain cards on "Doing".                                     *)
(***************************************************************************)
\* The quarters of a day the clock moves on in a run.
MaxNow == 2

AgeAnswers(b) ==
    IF b = "b1"
    THEN {FailedAnswer, Answer(FALSE, <<>>, <<>>)} \cup
         { Answer(FALSE, <<Card(1, l, start, due, None, {})>> \o more, <<>>) :
             l \in {"l1", "l2"},
             start \in {None, BadDate, Date(Day)},
             due \in {None, Date(-Day)},
             more \in {<<>>, <<PlainCard(2)>>} }
    ELSE {Answer(FALSE, <<>>, <<>>), Answer(FALSE, <<PlainCard(1)>>, <<>>)}

AgeInputs ==
    { (board_ids[1] :> a1) @@ (board_ids[2] :> a2) :
        a1 \in AgeAnswers(board_ids[1]), a2 \in AgeAnswers(board_ids[2]) }

\* A quarter of a day passes.
Tick ==
    /\ utc_now < MaxNow
    /\ utc_now' = utc_now + 1
    /\ UNCHANGED <<boards, utc_offset, card_states, observed, rep>>

NextAge ==
    \/ /\ \E answers \in AgeInputs : SendDailyReport(answers)
       /\ UNCHANGED <<pollVars, pinVars, sendVars, taskVars, extVars>>
    \/ Tick /\ UNCHANGED <<pollVars, pinVars, sendVars, taskVars, extVars>>

SpecAge == Init /\ [][NextAge]_vars

(***************************************************************************)
(* The change detector with the statements of one loop body as separate    *)
(* steps, and the signal handler: a handler installed by signal.signal     *)
(* runs between two bytecodes of the main thread, or while the loop waits  *)
(* in an await, and sys.exit(0) ends the process there.                    *)
(***************************************************************************)
\* The end of one iteration of `for card in current_cards`.
NextCard ==
    /\ current_cards' = Tail(current_cards)
    /\ IF Tail(current_cards) = <<>>
       THEN AfterBoard
       ELSE poll_pc' = "cards" /\ board_idx' = board_idx

\* The loop body up to the end of `await self.send_message(...)`, or the
\* whole of it when it sends nothing.
ExamineCard ==
    \/ ProcessCard /\ events' = <<>>
    \/ /\ poll_pc = "cards"
       /\ \E sending \in SendResults :
             LET board_id == board_ids[board_idx]
                 card == Head(current_cards)
                 key == card_key(board_id, card.id)
                 r == process_card(last_known_states, board_id, card,
                                   sending.result # None)
             IN  /\ r.events # <<>>
                 /\ events' = r.events
                 /\ last' = [key |-> key, card |-> card, raised |-> FALSE,
                             prev |-> last_known_states[key],
                             earlier |-> IF last = None THEN {}
                                         ELSE last.earlier
                                              \cup {events[i] : i \in 1..Len(events)},
                             skipped |-> <<>>]
                 /\ poll_pc' = "notified"
                 /\ UNCHANGED <<last_known_states, board_idx, current_cards>>

\* self.last_known_states[card_key]["completed"] = True
StoreCompleted ==
    /\ poll_pc = "notified"
    /\ events[1].type = "CardCompleted"
    /\ last_known_states' = [last_known_states EXCEPT ![last.key].completed = TRUE]
    /\ poll_pc' = "list_id"
    /\ UNCHANGED <<board_idx, current_cards, events, last>>

\* self.last_known_states[card_key]["list_id"] = card["idList"]
StoreListId ==
    /\ poll_pc = "list_id"
    /\ last_known_states' =
          [last_known_states EXCEPT ![last.key] = mark_completed(@, last.card)]
    /\ NextCard
    /\ UNCHANGED <<events, last>>

\* The assignment that follows notify_member_assignments.
StoreNotCompleted ==
    /\ poll_pc = "notified"
    /\ events[1].type = "MembersAssigned"
    /\ last_known_states' =
          (last.key :> not_completed_state(last.card)) @@ last_known_states
    /\ NextCard
    /\ UNCHANGED <<events, last>>

\* SIGINT or SIGTERM: signal_handler calls sys.exit(0).
signal_handler ==
    /\ poll_pc # "exit"
    /\ poll_pc' = "exit"
    /\ UNCHANGED <<last_known_states, board_idx, current_cards, events, last>>

NextShutdown ==
    \/ StartPoll /\ UNCHANGED <<pinVars, sendVars, reportVars, taskVars, extVars>>
    \/ FetchBoard /\ UNCHANGED <<pinVars, sendVars, reportVars, taskVars, extVars>>
    \/ ExamineCard /\ UNCHANGED <<pinVars, sendVars, reportVars, taskVars, extVars>>
    \/ StoreCompleted /\ UNCHANGED <<pinVars, sendVars, reportVars, taskVars, extVars>>
    \/ StoreListId /\ UNCHANGED <<pinVars, sendVars, reportVars, taskVars, extVars>>
    \/ StoreNotCompleted /\ UNCHANGED <<pinVars, sendVars, reportVars, taskVars, extVars>>
    \/ signal_handler /\ UNCHANGED <<pinVars, sendVars, reportVars, taskVars, extVars>>
    \/ Restart /\ UNCHANGED <<pinVars, sendVars, reportVars, taskVars, extVars>>

SpecShutdown == Init /\ [][NextShutdown]_vars

NextAuth ==
    \/ StartPoll /\ UNCHANGED <<pinVars, sendVars, reportVars, taskVars, extVars>>
    \/ FetchBoardRequest /\ UNCHANGED <<pinVars, sendVars, reportVars, taskVars, chat_log, reopened, unreadable>>
    \/ ProcessCard /\ UNCHANGED <<pinVars, sendVars, reportVars, taskVars, extVars>>
    \/ OperatorRestart /\ UNCHANGED <<pinVars, sendVars, reportVars, taskVars, chat_log, reopened, unreadable>>

SpecAuth == Init /\ [][NextAuth]_vars

NextOutage ==
    \/ StartPoll /\ UNCHANGED <<pinVars, sendVars, reportVars, taskVars, extVars>>
    \/ FetchBoardOutage /\ UNCHANGED <<pinVars, sendVars, reportVars, taskVars, chat_log, reopened, unreadable>>
    \/ ProcessCard /\ UNCHANGED <<pinVars, sendVars, reportVars, taskVars, extVars>>
    \/ OperatorRestart /\ UNCHANGED <<pinVars, sendVars, reportVars, taskVars, chat_log, reopened, unreadable>>

SpecOutage == Init /\ [][NextOutage]_vars

(***************************************************************************)
(* The change detector with the record of the cards that were reopened.   *)
(***************************************************************************)
ProcessCardReopened ==
    /\ ProcessCard
    /\ LET waiting == { key \in reopened : ~last_known_states[key].completed }
       IN  reopened' =
              IF /\ ~last'.raised
                 /\ last'.prev # None
                 /\ ~is_completed(list_name(last'.card.idList))
              THEN IF last'.prev.completed
                   THEN waiting \cup {last'.key}
                   ELSE waiting
              ELSE waiting

RestartReopened ==
    /\ Restart
    /\ reopened' = {}

NextReopen ==
    \/ StartPoll /\ UNCHANGED <<pinVars, sendVars, reportVars, taskVars, extVars>>
    \/ FetchBoard /\ UNCHANGED <<pinVars, sendVars, reportVars, taskVars, extVars>>
    \/ ProcessCardReopened /\ UNCHANGED <<pinVars, sendVars, reportVars, taskVars, api, chat_log, unreadable>>
    \/ RestartReopened /\ UNCHANGED <<pinVars, sendVars, reportVars, taskVars, api, chat_log, unreadable>>

SpecReopen == Init /\ [][NextReopen]_vars

NextTasks ==
    \/ /\ \E t \in TaskIds : StartCt(t)
       /\ UNCHANGED <<pollVars, pinVars, sendVars, reportVars, extVars>>
    \/ /\ \E t \in TaskIds : GetLastReportUrl(t)
       /\ UNCHANGED <<pollVars, pinVars, sendVars, reportVars, extVars>>
    \/ /\ \E t \in TaskIds : GetStored(t)
       /\ UNCHANGED <<pollVars, pinVars, sendVars, reportVars, extVars>>
    \/ /\ \E t \in TaskIds : UnpinOrSend(t)
       /\ UNCHANGED <<pollVars, pinVars, sendVars, reportVars, extVars>>
    \/ /\ \E t \in TaskIds : RemoveLoad(t)
       /\ UNCHANGED <<pollVars, pinVars, sendVars, reportVars, extVars>>
    \/ /\ \E t \in TaskIds : SaveOpen(t)
       /\ UNCHANGED <<pollVars, pinVars, sendVars, reportVars, extVars>>
    \/ /\ \E t \in TaskIds : RemoveWrite(t)
       /\ UNCHANGED <<pollVars, pinVars, sendVars, reportVars, extVars>>
    \/ /\ \E t \in TaskIds : PinNew(t)
       /\ UNCHANGED <<pollVars, pinVars, sendVars, reportVars, extVars>>
    \/ /\ \E t \in TaskIds : AddLoad(t)
       /\ UNCHANGED <<pollVars, pinVars, sendVars, reportVars, extVars>>
    \/ /\ \E t \in TaskIds : AddWrite(t)
       /\ UNCHANGED <<pollVars, pinVars, sendVars, reportVars, extVars>>
    \/ /\ \E t \in TaskIds : ClearLoad(t)
       /\ UNCHANGED <<pollVars, pinVars, sendVars, reportVars, extVars>>
    \/ /\ \E t \in TaskIds : ClearWrite(t)
       /\ UNCHANGED <<pollVars, pinVars, sendVars, reportVars, extVars>>
    \/ Crash /\ UNCHANGED <<pollVars, pinVars, sendVars, reportVars, extVars>>

SpecTasks == Init /\ [][NextTasks]_vars

\* The change detector and the tracker share no variable, so the states the
\* two reach together are the pairs of states each reaches alone: each is
\* run while the other rests in its initial state.
NextCycle ==
    \/ InitReport /\ NextPoll
    \/ InitPoll /\ NextTrack

SpecCycle == Init /\ [][NextCycle]_vars
(***************************************************************************)
(* Properties.                                                             *)
(***************************************************************************)
\* The lists whose name holds "done" in any case: "Done #" and "OLD DONE".
InDoneList(card) == card.idList \in {"l2", "l3"}

\* The last step examined a card to the end of the loop body.
Examined == last # None /\ ~last.raised

\* The indices of the stored records of a chat.
RecordsOf(chat_id) ==
    { i \in 1..Len(pinned_messages) : pinned_messages[i].chat_id = chat_id }

AllUnpinsOk == \A i \in DOMAIN pub.unpin_ok : pub.unpin_ok[i]

\* C1: a card whose stored state is not completed and that a poll finds in
\* a done list gets exactly one CardCompleted notification and is stored as
\* completed; a card stored as completed that a poll finds in a done list
\* gets none and stays completed.
C1_CompletedOnce ==
    (Examined /\ last.prev # None /\ InDoneList(last.card)) =>
        /\ last_known_states[last.key].completed
        /\ IF last.prev.completed
           THEN events = <<>>
           ELSE /\ Len(events) = 1
                /\ events[1].type = "CardCompleted"
                /\ events[1].key = last.key

\* A poll has just found, in a done list, a card stored as not completed.
C1_Witness ==
    /\ Examined
    /\ last.prev # None
    /\ ~last.prev.completed
    /\ InDoneList(last.card)
    /\ Len(events) = 1

\* C2: a card with no stored state that a poll finds in a done list gets no
\* notification, and its state is seeded as completed.
C2_ColdStartSilent ==
    (Examined /\ last.prev = None /\ InDoneList(last.card)) =>
        /\ events = <<>>
        /\ last.key \in DOMAIN last_known_states
        /\ last_known_states[last.key].completed

\* A poll has just found, in a done list, a card it had no state for.
C2_Witness ==
    /\ Examined
    /\ last.prev = None
    /\ InDoneList(last.card)
    /\ last.key \in DOMAIN last_known_states

\* C3: for a card found outside the done lists, a MembersAssigned
\* notification is sent iff the card has a stored state and some current
\* member is not among the stored members, and it carries exactly the
\* current members that are not stored ones.
C3_MembersAssigned ==
    (Examined /\ ~InDoneList(last.card)) =>
        IF last.prev # None /\ (last.card.members \ last.prev.members) # {}
        THEN /\ Len(events) = 1
             /\ events[1].type = "MembersAssigned"
             /\ events[1].key = last.key
             /\ events[1].members = last.card.members \ last.prev.members
        ELSE events = <<>>

\* A poll has just found a member added to a card that keeps an old one.
C3_Witness ==
    /\ Examined
    /\ ~InDoneList(last.card)
    /\ last.prev # None
    /\ (last.card.members \ last.prev.members) # {}
    /\ (last.card.members \ last.prev.members) # last.card.members
    /\ events # <<>>

\* C4: whatever the unpin, send and pin steps of the publishes did, a chat
\* has at most one stored PinRecord.
C4_AtMostOnePinRecord ==
    \A chat_id \in Chats : Cardinality(RecordsOf(chat_id)) <= 1

\* C5: after a publish whose unpins, send and pin all succeeded, the chat
\* has exactly one stored record, that of the report just sent.
C5_OneRecordAfterSuccess ==
    (pub # None /\ AllUnpinsOk /\ pub.sent # None /\ pub.pin_ok) =>
        \E i \in RecordsOf(pub.chat_id) :
            /\ pinned_messages[i].message_id = pub.sent.message_id
            /\ RecordsOf(pub.chat_id) = {i}

\* A fully successful publish for a chat that had two records before it.
C5_Witness ==
    /\ pub # None
    /\ Len(pub.before) >= 2
    /\ AllUnpinsOk
    /\ pub.sent # None
    /\ pub.pin_ok

\* C6: after a publish, no record the chat had before the call is stored.
C6_OldRecordsRemoved ==
    pub # None =>
        \A i \in 1..Len(pub.before) :
            \A j \in 1..Len(pinned_messages) : pinned_messages[j] # pub.before[i]

\* C7: when the send fails, publish returns the failure, attempts no pin
\* and adds no record: the chat's records are among those it had before.
C7_SendFailureAborts ==
    (pub # None /\ pub.sent = None) =>
        /\ pub.returned = None
        /\ ~pub.pin_tried
        /\ \A j \in RecordsOf(pub.chat_id) :
              \E i \in 1..Len(pub.before) : pinned_messages[j] = pub.before[i]

\* A publish whose send failed after its retries.
C7_Witness == pub # None /\ pub.sent = None /\ pub.send_tried

\* C8: when the send succeeds and the pin fails, no record is added for the
\* new message and publish returns the sent message.
C8_PinFailureKeepsDelivery ==
    (pub # None /\ pub.sent # None /\ ~pub.pin_ok) =>
        /\ pub.pin_tried
        /\ pub.returned = pub.sent
        /\ \A j \in RecordsOf(pub.chat_id) :
              pinned_messages[j].message_id # pub.sent.message_id

\* A publish whose report was delivered and could not be pinned.
C8_Witness == pub # None /\ pub.sent # None /\ pub.pin_tried /\ ~pub.pin_ok

\* C9: every publish attempts the unpin of each record stored for the chat,
\* in order, whatever the earlier unpins did, then attempts the send, and
\* attempts the pin of the report whenever it was delivered.
C9_UnpinFailureDoesNotStop ==
    pub # None =>
        /\ pub.unpin_tried = [i \in 1..Len(pub.before) |-> pub.before[i].message_id]
        /\ pub.send_tried
        /\ (pub.sent # None => pub.pin_tried)

\* A publish whose first unpin failed, with a second record to unpin after
\* it, and whose report was delivered.
C9_Witness ==
    /\ pub # None
    /\ Len(pub.before) >= 2
    /\ ~pub.unpin_ok[1]
    /\ Len(pub.unpin_tried) >= 2
    /\ pub.sent # None
    /\ pub.pin_tried

\* The attempt that delivers under `outcomes`: the first that succeeds.
FirstSuccess ==
    CHOOSE k \in 1..max_retries :
        outcomes[k] /\ \A j \in 1..(k - 1) : ~outcomes[j]

SendBounded ==
    /\ send_state.attempts <= max_retries
    /\ send_state.deliveries <= 1
    /\ send_state.pc = "done" =>
          IF \E k \in 1..max_retries : outcomes[k]
          THEN /\ send_state.result # None
               /\ send_state.deliveries = 1
               /\ send_state.attempts = FirstSuccess
          ELSE /\ send_state.result = None
               /\ send_state.deliveries = 0
               /\ send_state.attempts = max_retries

\* C10: send_message makes at most max_retries attempts, stops at the first
\* that succeeds and returns its result, having delivered once; when all
\* max_retries attempts fail it returns None; and every call returns.
C10_SendMessageBounded == []SendBounded /\ <>(send_state.pc = "done")

\* A call that returned None after max_retries failed attempts.
C10_Witness ==
    /\ send_state.pc = "done"
    /\ send_state.result = None
    /\ send_state.attempts = max_retries

\* The tracker handled board b to the end of its loop body: every card
\* fetched for it has an entry iff it is on an in-progress list.
BoardTracked(b) ==
    \A i \in 1..Len(observed[b].cards) :
        LET card == observed[b].cards[i]
        IN  card_key(b, card.id) \in DOMAIN card_states
                <=> is_in_progress(list_name(card.idList))

\* A step in which the `try` body of the board in hand raises.
PollBoardRaises ==
    \/ FetchBoard /\ poll_pc' # "cards"
    \/ ProcessCard /\ last'.raised

\* C11: an error while fetching or processing one board stops neither loop.
\* In check_for_completed_cards the step in which a board raises leads to
\* the fetch of the next configured board, or past the last board to the
\* end of the cycle, from where the main loop polls again.  A run of
\* update_card_progress_tracking ends with every board either handled to
\* the end or logged as an error, and every board handled to the end has
\* its entries brought up to date whatever happened to the other boards.
C11_BoardErrorsIsolated ==
    /\ [][PollBoardRaises =>
             IF board_idx < Len(board_ids)
             THEN poll_pc' = "fetch" /\ board_idx' = board_idx + 1
             ELSE poll_pc' = "idle"]_vars
    /\ [](rep # None /\ rep.op = "daily" =>
             /\ rep.completed \cup rep.errors = Boards
             /\ \A b \in rep.completed : BoardTracked(b))

\* Board b1 raised while a card was processed and b2 is fetched next.
C11_Witness ==
    /\ poll_pc = "fetch"
    /\ board_idx = 2
    /\ last # None
    /\ last.raised

\* The configured boards without those of `failing`, in order.
BoardsWithout(failing) == SelectSeq(board_ids, LAMBDA b : b \notin failing)

IsErrorLine(part) == part.kind = "error"

IsBoardPart(part) == part.kind # "error"

\* The boards whose data cannot be fetched or processed for each digest.
DailyFailing == {b \in Boards : daily_board_raises(boards[b])}

WeeklyFailing == {b \in Boards : weekly_board_raises(boards[b])}

\* The error line each digest has for a board that raises.
DailyErrorLine(b) == error_line(b, str_e(boards[b], boards[b].cards))

WeeklyErrorLine(b) == error_line(b, str_e(boards[b], all_board_cards(boards[b])))

SectionOf(report, b) ==
    SelectSeq(report.parts, LAMBDA part : part.kind = "section" /\ part.board = b)

\* The ids of the cards of board b listed under Overdue, and under Current.
ListedOverdue(report, b) ==
    IF SectionOf(report, b) = <<>> THEN {}
    ELSE {SectionOf(report, b)[1].overdue[i].id :
              i \in 1..Len(SectionOf(report, b)[1].overdue)}

ListedCurrent(report, b) ==
    IF SectionOf(report, b) = <<>> THEN {}
    ELSE {SectionOf(report, b)[1].current[i].id :
              i \in 1..Len(SectionOf(report, b)[1].current)}

\* The card has a due date, and it is earlier than now.
DueBeforeNow(card) ==
    /\ card.due # None
    /\ card.due # BadDate
    /\ card.due.t < utc_now

\* The cards fetched for board b.
CardsOf(b) == {boards[b].cards[i] : i \in 1..Len(boards[b].cards)}

\* C13: in a daily digest, for every board whose section was composed
\* (its data was fetched and processed), each card that is not in a done
\* list and whose due date is earlier than now is listed under Overdue and
\* not under Current, whatever its list and its start date; a card in a
\* done list is listed under neither; no card is listed under both.
C13_OverdueNotCurrent ==
    rep # None /\ rep.op = "ct" =>
        \A b \in Boards \ DailyFailing :
            /\ \A card \in CardsOf(b) :
                  /\ ~InDoneList(card) /\ DueBeforeNow(card) =>
                        /\ card.id \in ListedOverdue(rep.report, b)
                        /\ card.id \notin ListedCurrent(rep.report, b)
                  /\ InDoneList(card) =>
                        /\ card.id \notin ListedOverdue(rep.report, b)
                        /\ card.id \notin ListedCurrent(rep.report, b)
            /\ ListedOverdue(rep.report, b) \cap ListedCurrent(rep.report, b) = {}

\* A started card on "Doing" that was due yesterday, listed under Overdue.
C13_Witness ==
    /\ rep # None
    /\ rep.op = "ct"
    /\ "b1" \notin DailyFailing
    /\ boards["b1"].cards[1].idList = "l1"
    /\ boards["b1"].cards[1].start = Date(-2 * Day)
    /\ boards["b1"].cards[1].due = Date(-Day)
    /\ 1 \in ListedOverdue(rep.report, "b1")
    /\ 1 \notin ListedCurrent(rep.report, "b1")

\* The card's list name holds neither a done nor an in-progress marker
\* (the board has one such list, Backlog) and the card is not overdue.
IsOther(card) ==
    /\ card.idList = Backlog
    /\ ~DueBeforeNow(card)

\* C14: a card whose list name holds neither a done marker nor an
\* in-progress marker and that is not overdue is never listed in the daily
\* digest, neither under Overdue nor under Current.
C14_OtherNeverListed ==
    rep # None /\ rep.op = "ct" =>
        \A b \in Boards \ DailyFailing :
            \A card \in CardsOf(b) :
                IsOther(card) =>
                    /\ card.id \notin ListedOverdue(rep.report, b)
                    /\ card.id \notin ListedCurrent(rep.report, b)

\* The card is on an in-progress list ("Doing"), not in a done list, and
\* its due date, if it has one, is a date that is not earlier than now.
InProgressNotOverdue(card) ==
    /\ card.idList = "l1"
    /\ card.due # BadDate
    /\ ~DueBeforeNow(card)

\* The cards of board b that /mt lists under Current.
TasksCurrent(tasks, b) ==
    {tasks.current[i][2] : i \in {j \in 1..Len(tasks.current) : tasks.current[j][1] = b}}

\* C15: a card of the user on an in-progress list, not overdue, without a
\* start date and with a due date is listed under Current, by the daily
\* digest and by /mt alike, exactly when its due date is at most 3 days
\* after now.
C15_DueWindow ==
    rep # None =>
        \A b \in Boards \ DailyFailing :
            \A card \in CardsOf(b) :
                /\ InProgressNotOverdue(card)
                /\ card.start = None
                /\ card.due # None
                /\ trello_username \in card.members
                =>  /\ rep.op = "ct" =>
                          (card.id \in ListedCurrent(rep.report, b)
                              <=> card.due.t - utc_now <= 3 * Day)
                    /\ rep.op = "mt" =>
                          (card.id \in TasksCurrent(rep.tasks, b)
                              <=> card.due.t - utc_now <= 3 * Day)

\* C16: a card of the user on an in-progress list, not overdue, whose
\* start date is later than now is listed under Current neither by the
\* daily digest nor by /mt.
C16_FutureStartNotCurrent ==
    rep # None =>
        \A b \in Boards \ DailyFailing :
            \A card \in CardsOf(b) :
                /\ InProgressNotOverdue(card)
                /\ card.start # None
                /\ card.start # BadDate
                /\ card.start.t > utc_now
                =>  /\ rep.op = "ct" => card.id \notin ListedCurrent(rep.report, b)
                    /\ rep.op = "mt" => card.id \notin TasksCurrent(rep.tasks, b)

\* The card as it reads with its malformed date fields absent.
WithoutBadDates(card) ==
    [card EXCEPT !.start = IF @ = BadDate THEN None ELSE @,
                 !.due = IF @ = BadDate THEN None ELSE @]

\* C17: a start or due string that cannot be parsed is read as an absent
\* field.  A daily digest has a section, not an error line, for every board
\* whose requests succeeded, /mt skips no such board, and a card on an
\* in-progress list whose dates are malformed or absent is listed under
\* Current.
C17_MalformedDateIsAbsent ==
    rep # None =>
        \A b \in {x \in Boards : ~boards[x].failed} :
            /\ rep.op = "ct" =>
                  /\ DailyErrorLine(b) \notin {rep.report.parts[i] : i \in 1..Len(rep.report.parts)}
                  /\ \A card \in CardsOf(b) :
                        /\ card.idList = "l1"
                        /\ WithoutBadDates(card).start = None
                        /\ WithoutBadDates(card).due = None
                        => card.id \in ListedCurrent(rep.report, b)
            /\ rep.op = "mt" => b \notin rep.tasks.skipped

\* The cards of board b the weekly digest lists as completed this week.
CompletedListed(report, b) ==
    {report.completed_tasks[i].id :
        i \in {j \in 1..Len(report.completed_tasks) : report.completed_tasks[j].board = b}}

\* C18: the weekly digest counts a card as completed this week iff it is
\* in a done list and its last activity lies in [now - 7 days, now], both
\* ends included.
C18_WeeklyWindow ==
    rep # None /\ rep.op = "wr" =>
        \A b \in Boards \ WeeklyFailing :
            \A i \in 1..Len(all_board_cards(boards[b])) :
                LET card == all_board_cards(boards[b])[i]
                IN  card.id \in CompletedListed(rep.report, b)
                        <=> /\ InDoneList(card)
                            /\ card.dateLastActivity # None
                            /\ card.dateLastActivity # BadDate
                            /\ card.dateLastActivity.t >= utc_now - 7 * Day
                            /\ card.dateLastActivity.t <= utc_now

\* The card with this key is, in the cards last fetched for its board, on
\* an in-progress list.
InProgressWhenLastSeen(key) ==
    \E i \in 1..Len(observed[key[1]].cards) :
        /\ observed[key[1]].cards[i].id = key[2]
        /\ observed[key[1]].cards[i].idList = "l1"

\* C19: after update_card_progress_tracking has handled a board without
\* an error, every ProgressEntry of that board belongs to a card the board
\* returned on an in-progress list: none is left for a card that moved
\* away, was archived or deleted.
C19_NoStaleEntryAfterTracking ==
    rep # None /\ rep.op = "daily" =>
        \A key \in DOMAIN card_states :
            key[1] \in rep.completed => InProgressWhenLastSeen(key)

\* The card with this key was, in the cards last fetched for its board, on
\* a list that is not an in-progress list.
LastSeenOutsideInProgress(key) ==
    \E i \in 1..Len(observed[key[1]].cards) :
        /\ observed[key[1]].cards[i].id = key[2]
        /\ observed[key[1]].cards[i].idList \in {"l2", Backlog}

\* C20: a ProgressEntry is deleted at the first observation of its card
\* outside all in-progress lists, be it by a daily report or by /ct: no
\* entry exists for a card that the cards last fetched for its board show
\* on another list.
C20_EntryImpliesInProgress ==
    \A key \in DOMAIN card_states : ~LastSeenOutsideInProgress(key)

\* The lines of the cards listed in a composed daily digest, each with the
\* board of its section.
ListedLines(report) ==
    UNION { { [board |-> report.parts[p].board, line |-> report.parts[p].overdue[i]] :
                  i \in 1..Len(report.parts[p].overdue) }
            \cup
            { [board |-> report.parts[p].board, line |-> report.parts[p].current[i]] :
                  i \in 1..Len(report.parts[p].current) } :
            p \in {q \in 1..Len(report.parts) : report.parts[q].kind = "section"} }

\* The card has a ProgressEntry.
Tracked(board_id, card_id) == card_key(board_id, card_id) \in DOMAIN card_states

\* The time a tracked card has been tracked, in quarters of a day.
TrackedFor(board_id, card_id) ==
    local_now - card_states[card_key(board_id, card_id)].started_at

C21_JustUnder ==
    /\ rep # None
    /\ rep.op = "ct"
    /\ \E l \in ListedLines(rep.report) :
          /\ ~l.line.long_running
          /\ Tracked(l.board, l.line.id)
          /\ TrackedFor(l.board, l.line.id) = 3 * Day - 1

\* C22: every load of the persisted document reads a whole document, the
\* one before or the one after a save: no load_json_file reads the file
\* while it is truncated, be it during a save of another task or after
\* the process died in the middle of a save.
C22_LoadsReadWholeDocument == ~load_seen.truncated

\* The tasks that are between their start and their end.
InFlight == {t \in TaskIds : running_tasks[t].pc # "idle"}

\* C23: the read-modify-write sequences on the PinRecord store are
\* serialized, so that once the overlapping tasks have ended the store
\* holds at most one PinRecord for the chat.
C23_TasksSerialized ==
    InFlight = {} /\ ~file.truncated =>
        Len(get_stored_pinned_messages(file.messages, PEER_ID)) <= 1

\* The texts str(e) an internal exception of a digest can have.
ExceptionTexts == {"ClientResponseError", "KeyError", "ValueError"}

\* C24: what /ct and /wr send to the chat is the report or a short error
\* string: no line of the sent text, the error line of a board included,
\* carries the text of an internal exception.
C24_NoExceptionTextSent ==
    rep # None /\ rep.op \in {"ct", "wr"} =>
        \A i \in 1..Len(rep.report.parts) :
            IsErrorLine(rep.report.parts[i]) =>
                rep.report.parts[i].text \notin ExceptionTexts

\* C25: a publish that finds a PinRecord of the chat sends a body that
\* ends with the previous-report link built from the message_url of the
\* record pinned last (the last one stored); a publish that finds none
\* sends the body as it is.
C25_LinkToLatestRecord ==
    pub # None =>
        IF pub.before = <<>>
        THEN pub.link = NoUrl
        ELSE /\ pub.link # NoUrl
             /\ pub.link = pub.before[Len(pub.before)].message_url

\* The cards the last daily report fetched for board b on an in-progress
\* list.
ObservedInProgress(b) ==
    { observed[b].cards[i].id :
        i \in { j \in 1..Len(observed[b].cards) :
                  is_in_progress(list_name(observed[b].cards[j].idList)) } }

\* C26: after update_card_progress_tracking has handled a board without an
\* error, every card the board returned on an in-progress list has a
\* ProgressEntry, whatever its start and due dates; an entry that a step
\* creates has started_at = now, and an entry that was there before the
\* step and is there after it is unchanged.
C26_EntryCreatedOnceAtNow ==
    /\ [](rep # None /\ rep.op = "daily" =>
            \A b \in rep.completed :
                \A id \in ObservedInProgress(b) : Tracked(b, id))
    /\ [][\A key \in DOMAIN card_states' :
              IF key \in DOMAIN card_states
              THEN card_states'[key] = card_states[key]
              ELSE card_states'[key].started_at = local_now]_vars

\* A daily report that finds card 1 of b1, whose start date is in the
\* future, on "Doing" again and leaves the entry it made earlier as it is.
C26_Witness ==
    /\ rep # None
    /\ rep.op = "daily"
    /\ rep.at = local_now
    /\ "b1" \in rep.completed
    /\ 1 \in ObservedInProgress("b1")
    /\ observed["b1"].cards[1].start = Date(Day)
    /\ Tracked("b1", 1)
    /\ TrackedFor("b1", 1) > 0

\* C27: a card stored as completed that a poll finds in a done list gets
\* no notification and its stored list_id becomes the list the card is in,
\* also after a move from one done list to another.
C27_DoneListIdRefreshed ==
    (Examined /\ last.prev # None /\ InDoneList(last.card)) =>
        \/ ~last.prev.completed
        \/ /\ events = <<>>
           /\ last_known_states[last.key].list_id = last.card.idList

\* C28: after a poll has examined a card outside the done lists, the
\* stored state of the card is completed = false, the list the card is in
\* and exactly the members the card has, with or without a notification;
\* a member who is on the card and not in the state stored before (never
\* seen, or removed at an earlier poll) is in the MembersAssigned
\* notification of that poll.
C28_NotDoneStateRefreshed ==
    (Examined /\ ~InDoneList(last.card)) =>
        /\ last.key \in DOMAIN last_known_states
        /\ last_known_states[last.key] =
              [completed |-> FALSE, list_id |-> last.card.idList,
               members |-> last.card.members]
        /\ last.prev # None =>
              \A m \in last.card.members \ last.prev.members :
                  /\ events # <<>>
                  /\ m \in events[1].members

\* A poll has just found a card outside the done lists without a member
\* that the stored state had, and sent nothing.
C28_Witness ==
    /\ Examined
    /\ ~InDoneList(last.card)
    /\ last.prev # None
    /\ last.prev.members \ last.card.members # {}
    /\ events = <<>>
    /\ last_known_states[last.key].members = last.card.members

\* The stored state of the card of notification e shows what e announced.
Stored(e) ==
    /\ e.key \in DOMAIN last_known_states
    /\ IF e.type = "CardCompleted"
       THEN last_known_states[e.key].completed
       ELSE e.members \subseteq last_known_states[e.key].members

\* The notifications of the step that leads to the next state.
NextEvents == {events'[i] : i \in 1..Len(events')}

\* C29: the stored state of a card is updated in the step that decides on
\* its notification, before the next card is examined: it shows the
\* notification of the card just examined and those of the cards of the
\* board examined before it, also when the card in hand raises and the
\* rest of the board is given up; a step that raises changes no stored
\* state; and no step sends a CardCompleted for a card stored as completed
\* or a MembersAssigned for a member stored with the card, so a later poll
\* does not repeat a notification that was sent.
C29_StateFollowsEvent ==
    /\ [](last # None =>
            /\ ~last.raised => \A i \in 1..Len(events) : Stored(events[i])
            /\ \A e \in last.earlier : Stored(e))
    /\ [][(last' # None /\ last'.raised) =>
              last_known_states' = last_known_states]_vars
    /\ [][\A e \in NextEvents :
              /\ e.key \in DOMAIN last_known_states
              /\ e.type = "CardCompleted" => ~last_known_states[e.key].completed
              /\ e.type = "MembersAssigned" =>
                    e.members \cap last_known_states[e.key].members = {}]_vars

\* A poll has sent a notification for card 1 of b1 and given up the board
\* at the card after it.
C29_Witness ==
    /\ last # None
    /\ last.raised
    /\ \E e \in last.earlier : e.key = card_key("b1", 1) /\ Stored(e)

\* C30: when a signal ends the process, the loop body of the card in hand
\* has run to its end: the process never stops with a notification sent
\* and the stored state of its card not updated, or updated in part.
C30_StopsAfterStateStep ==
    (poll_pc = "exit" /\ last # None /\ ~last.raised) =>
        \A i \in 1..Len(events) :
            /\ Stored(events[i])
            /\ last_known_states[events[i].key].list_id = last.card.idList

(***************************************************************************)
(* The command handlers (src/app/handlers.py).  message.chat.id is an      *)
(* integer and every handler compares its decimal string with the          *)
(* configured peer id.  chat_log is what the last command made the bot do: *)
(* the calls of send_message, of pin_chat_message and of                   *)
(* unpin_chat_message.                                                     *)
(***************************************************************************)
\* The chats a command comes from: the peer, a stranger, the report group.
CommandChats == {7, 9, -1008}

\* The reports delivered in a run of the command handlers.
MaxCommandReports == 2

Digit(d) == SubSeq(<<"0", "1", "2", "3", "4", "5", "6", "7", "8", "9">>, d + 1, d + 1)

RECURSIVE str_nat(_)
str_nat(n) == IF n < 10 THEN Digit(n) ELSE str_nat(n \div 10) \o Digit(n % 10)

\* str() of an integer chat id.
str(n) == IF n < 0 THEN <<"-">> \o str_nat(-n) ELSE str_nat(n)

\* Mutant: every chat passes for the peer.
from_any_chat(chat_id) == TRUE

\* The negation of `str(message.chat.id) != str(config.PEER_ID)`; PEER_ID
\* is a string already.
from_peer(chat_id) == str(chat_id) = PEER_ID

Logged(command, chat_id, sends, pins, unpins) ==
    [command |-> command, chat_id |-> chat_id,
     sends |-> sends, pins |-> pins, unpins |-> unpins]

\* `return` right after the peer test.
Ignored(command, chat_id) ==
    /\ chat_log' = Logged(command, chat_id, 0, 0, 0)
    /\ UNCHANGED <<pinVars, reportVars>>

\* A handler that only answers with one message.
Answered(command, chat_id) ==
    /\ chat_log' = Logged(command, chat_id, 1, 0, 0)
    /\ UNCHANGED <<pinVars, reportVars>>

\* /start
handle_start_command ==
    \E chat_id \in CommandChats :
        IF ~from_peer(chat_id)
        THEN Ignored("start", chat_id)
        ELSE Answered("start", chat_id)

\* /ct: the report, then _send_report_with_pin to the sender's chat.
handle_ct_command ==
    \E chat_id \in CommandChats :
        IF ~from_peer(chat_id)
        THEN Ignored("ct", chat_id)
        ELSE /\ Delivered < MaxCommandReports
             /\ CtReport(boards)
             /\ Publish(str(chat_id))
             /\ chat_log' = Logged("ct", chat_id,
                                   IF pub'.send_tried THEN 1 ELSE 0,
                                   IF pub'.pin_tried THEN 1 ELSE 0,
                                   Len(pub'.unpin_tried))

\* /wr
handle_wr_command ==
    \E chat_id \in CommandChats :
        IF ~from_peer(chat_id)
        THEN Ignored("wr", chat_id)
        ELSE /\ WrCommand(boards)
             /\ chat_log' = Logged("wr", chat_id, 1, 0, 0)
             /\ UNCHANGED pinVars

\* /mt: an answer also when the sender has no username.
handle_mt_command ==
    \E chat_id \in CommandChats, has_username \in BOOLEAN :
        IF ~from_peer(chat_id)
        THEN Ignored("mt", chat_id)
        ELSE IF ~has_username
        THEN Answered("mt", chat_id)
        ELSE /\ MtCommand(boards)
             /\ chat_log' = Logged("mt", chat_id, 1, 0, 0)
             /\ UNCHANGED pinVars

\* The text after "/unpin": absent, not a number, or a message id.
UnpinArguments ==
    {[given |-> FALSE, number |-> FALSE],
     [given |-> TRUE, number |-> FALSE],
     [given |-> TRUE, number |-> TRUE]}

\* /unpin MESSAGE_ID: the unpin call, then an answer that tells how it
\* went; the usage line when there is no id.  The store is not touched.
handle_unpin_command ==
    \E chat_id \in CommandChats, argument \in UnpinArguments :
        IF ~from_peer(chat_id)
        THEN Ignored("unpin", chat_id)
        ELSE IF argument.given /\ argument.number
        THEN /\ chat_log' = Logged("unpin", chat_id, 1, 0, 1)
             /\ UNCHANGED <<pinVars, reportVars>>
        ELSE Answered("unpin", chat_id)

\* /stored
handle_stored_command ==
    \E chat_id \in CommandChats :
        IF ~from_peer(chat_id)
        THEN Ignored("stored", chat_id)
        ELSE Answered("stored", chat_id)

\* /clear_stored: the records of the sender's chat are dropped.
handle_clear_stored_command ==
    \E chat_id \in CommandChats :
        IF ~from_peer(chat_id)
        THEN Ignored("clear_stored", chat_id)
        ELSE /\ pinned_messages' =
                    SelectSeq(pinned_messages, LAMBDA msg : msg.chat_id # str(chat_id))
             /\ pub' = None
             /\ chat_log' = Logged("clear_stored", chat_id, 1, 0, 0)
             /\ UNCHANGED <<next_message_id, clock, reportVars>>

\* /debug_file
handle_debug_file_command ==
    \E chat_id \in CommandChats :
        IF ~from_peer(chat_id)
        THEN Ignored("debug_file", chat_id)
        ELSE Answered("debug_file", chat_id)

\* /clear_commands
handle_clear_commands_command ==
    \E chat_id \in CommandChats :
        IF ~from_peer(chat_id)
        THEN Ignored("clear_commands", chat_id)
        ELSE Answered("clear_commands", chat_id)

\* send_daily_report between two commands: the tracking, the report and
\* its publish to the report group.
ScheduledReport ==
    /\ Delivered < MaxCommandReports
    /\ SendDailyReport(boards)
    /\ DailyReport
    /\ UNCHANGED chat_log

NextCommands ==
    \/ handle_start_command /\ UNCHANGED <<pollVars, sendVars, taskVars, api, reopened, unreadable>>
    \/ handle_ct_command /\ UNCHANGED <<pollVars, sendVars, taskVars, api, reopened, unreadable>>
    \/ handle_wr_command /\ UNCHANGED <<pollVars, sendVars, taskVars, api, reopened, unreadable>>
    \/ handle_mt_command /\ UNCHANGED <<pollVars, sendVars, taskVars, api, reopened, unreadable>>
    \/ handle_unpin_command /\ UNCHANGED <<pollVars, sendVars, taskVars, api, reopened, unreadable>>
    \/ handle_stored_command /\ UNCHANGED <<pollVars, sendVars, taskVars, api, reopened, unreadable>>
    \/ handle_clear_stored_command /\ UNCHANGED <<pollVars, sendVars, taskVars, api, reopened, unreadable>>
    \/ handle_debug_file_command /\ UNCHANGED <<pollVars, sendVars, taskVars, api, reopened, unreadable>>
    \/ handle_clear_commands_command /\ UNCHANGED <<pollVars, sendVars, taskVars, api, reopened, unreadable>>
    \/ ScheduledReport /\ UNCHANGED <<pollVars, sendVars, taskVars, api, reopened, unreadable>>

SpecCommands == Init /\ [][NextCommands]_vars

(***************************************************************************)
(* The stored documents when a file cannot be parsed: cut short by a write *)
(* that did not finish, or edited by hand.  The content of such a file is  *)
(* still on disk (pinned_messages, card_states), and load_json_file        *)
(* returns the default for it until a save replaces the file.  The         *)
(* operations run one after the other here.                                *)
(***************************************************************************)
PINNED_MESSAGES_FILE == "bot_pinned_messages.json"

CARD_STATES_FILE == "card_states.json"

Documents == {PINNED_MESSAGES_FILE, CARD_STATES_FILE}

\* What load_json_file finds in a file: whether it parses, and what it lists.
FileOf(filename, content) ==
    [truncated |-> filename \in unreadable, messages |-> content]

\* What the tracker is run on: card 1 of b1 on "Doing" or on "Done #", or
\* no answer for b1; board b2 has no card.
LoadAnswers ==
    { (board_ids[1] :> a1) @@ (board_ids[2] :> Answer(FALSE, <<>>, <<>>)) :
        a1 \in {FailedAnswer, Answer(FALSE, <<PlainCard(1)>>, <<>>),
                Answer(FALSE, <<Card(1, "l2", None, None, None, {})>>, <<>>)} }

\* send_message delivers at the first attempt, or gives up.
LoadSendResults ==
    { send_message(FirstSuccessAt(k)) : k \in {1, max_retries + 1} }

\* A file stops being a JSON document.
Damage ==
    /\ \E filename \in Documents :
          /\ filename \notin unreadable
          /\ unreadable' = unreadable \cup {filename}
    /\ UNCHANGED <<pinVars, reportVars, load_seen>>

\* _send_report_with_pin with the loads of the storage calls: each call
\* loads the file again, and the first save (after an unpin or after the
\* pin) replaces it.  still_unreadable is what does not parse when the
\* publish begins.
PublishLoaded(chat_id, still_unreadable) ==
    /\ Delivered < MaxCommandReports
    /\ \E sending \in LoadSendResults, pin_ok \in BOOLEAN :
       LET content == FileOf(PINNED_MESSAGES_FILE, pinned_messages)
           data == load_json_file(content)
       IN  \E unpin_ok \in [1..Len(get_stored_pinned_messages(data, chat_id))
                              -> BOOLEAN] :
              LET r == send_report_with_pin(data, chat_id, unpin_ok, sending,
                                            pin_ok, next_message_id[chat_id], clock)
                  saved == r.data # data
              IN  /\ load_seen' = content
                  /\ pinned_messages' = IF saved THEN r.data ELSE pinned_messages
                  /\ unreadable' = IF saved
                                   THEN still_unreadable \ {PINNED_MESSAGES_FILE}
                                   ELSE still_unreadable
                  /\ pub' = [f \in DOMAIN r \ {"data"} |-> r[f]]
                  /\ next_message_id' =
                        IF r.sent = None THEN next_message_id
                        ELSE [next_message_id EXCEPT ![chat_id] = @ + 1]
                  /\ clock' = IF r.pin_tried /\ r.pin_ok THEN clock + 1 ELSE clock

\* /ct from the peer chat.
CtLoaded ==
    /\ CtReport(boards)
    /\ PublishLoaded(PEER_ID, unreadable)

\* send_daily_report: update_card_progress_tracking from load_card_states
\* to save_card_states, the report, and its publish to the report group.
\* The scheduler starts it at a fixed hour: the clock has moved on when it
\* runs again.
SendDailyReportLoaded ==
    /\ utc_now < MaxNow
    /\ \E answers \in LoadAnswers :
        LET content == FileOf(CARD_STATES_FILE, card_states)
            r == update_card_progress_tracking(load_json_file(content),
                                               board_ids, answers)
        IN  /\ card_states' = r.states
            /\ rep' = [op |-> "daily", at |-> local_now,
                       completed |-> r.completed, errors |-> r.errors,
                       report |-> generate_enhanced_daily_report(board_ids, answers,
                                                                 r.states),
                       loaded |-> content]
            /\ observed' = observe(observed, answers)
            /\ utc_now' = utc_now + 1
            /\ UNCHANGED <<boards, utc_offset>>
            /\ PublishLoaded(REPORT_CHAT_ID, unreadable \ {CARD_STATES_FILE})

NextLoad ==
    \/ /\ Damage
       /\ UNCHANGED <<pollVars, sendVars, file, running_tasks, started,
                      message_count, api, chat_log, reopened>>
    \/ /\ CtLoaded
       /\ UNCHANGED <<pollVars, sendVars, file, running_tasks, started,
                      message_count, api, chat_log, reopened>>
    \/ /\ SendDailyReportLoaded
       /\ UNCHANGED <<pollVars, sendVars, file, running_tasks, started,
                      message_count, api, chat_log, reopened>>

SpecLoad == Init /\ [][NextLoad]_vars

Next == NextPoll \/ NextPin \/ NextSend \/ NextDigest \/ NextTrack \/ NextTasks \/ NextAge
        \/ NextShutdown \/ NextAuth \/ NextReopen \/ NextOutage \/ NextCommands \/ NextLoad

Spec == Init /\ [][Next]_vars

\* C31: once the board API has answered 401, no board API request is made
\* in that cycle or in a later one until the operator has intervened.
C31_NoRequestAfter401 == ~api.later

\* C32: completion notices are once per move into the done lists, not
\* once per card.  A card that was stored as completed, was then seen
\* outside the done lists and is found in a done list again gets one new
\* CardCompleted; the poll that finds it reopened sends MembersAssigned
\* for the members it has beyond those of the stored completed state, and
\* those are the members stored before the completion, since no step
\* changes the members of a state that it leaves or makes completed.
C32_CompletedAgainAfterReopen ==
    /\ [](Examined =>
            /\ (InDoneList(last.card) /\ last.key \in reopened
                    /\ ~last.prev.completed) =>
                  /\ Len(events) = 1
                  /\ events[1].type = "CardCompleted"
                  /\ events[1].key = last.key
                  /\ last_known_states[last.key].completed
            /\ (~InDoneList(last.card) /\ last.prev # None
                    /\ last.prev.completed) =>
                  /\ ~last_known_states[last.key].completed
                  /\ IF last.card.members \ last.prev.members # {}
                     THEN /\ Len(events) = 1
                          /\ events[1].type = "MembersAssigned"
                          /\ events[1].members = last.card.members \ last.prev.members
                     ELSE events = <<>>)
    /\ [][\A key \in DOMAIN last_known_states \cap DOMAIN last_known_states' :
              last_known_states'[key].completed =>
                  last_known_states'[key].members = last_known_states[key].members]_vars

\* A poll has just found, in a done list again, a card that was completed
\* and reopened before, and has sent the notice.
C32_Witness ==
    /\ Examined
    /\ InDoneList(last.card)
    /\ last.key \in reopened
    /\ ~last.prev.completed
    /\ Len(events) = 1

\* A poll has just found a completed card reopened, with a member that was
\* added while it was in the done list.
C32_ReopenedWithNewMember ==
    /\ Examined
    /\ ~InDoneList(last.card)
    /\ last.prev # None
    /\ last.prev.completed
    /\ Len(events) = 1

\* The step that leads to the next state is a fetch of the board in hand
\* that failed.
FetchFails ==
    /\ poll_pc = "fetch"
    /\ board_ids[board_idx] \in api'.failed

\* C33: a fetch of a board that fails changes no stored state and sends
\* nothing, whatever happened to the cards of the board meanwhile; at the
\* first fetch that succeeds after it, a card stored as not completed and
\* found in a done list gets exactly one CardCompleted and is stored as
\* completed, so that the polls after it send none.
C33_CompletedAfterOutage ==
    /\ [][FetchFails =>
              /\ last_known_states' = last_known_states
              /\ events' = <<>>]_vars
    /\ []((Examined /\ api.recovered /\ InDoneList(last.card) /\ last.prev # None) =>
            /\ last_known_states[last.key].completed
            /\ IF last.prev.completed
               THEN events = <<>>
               ELSE /\ Len(events) = 1
                    /\ events[1].type = "CardCompleted"
                    /\ events[1].key = last.key)

\* The first fetch of a board that succeeds after one that failed has
\* found, in a done list, a card stored as not completed.
C33_Witness ==
    /\ Examined
    /\ api.recovered
    /\ InDoneList(last.card)
    /\ last.prev # None
    /\ ~last.prev.completed
    /\ Len(events) = 1

\* C34: a notification that send_message could not deliver is not tried
\* again.  The state of its card is updated in the same step as if it had
\* been delivered: completed and the new list for a CardCompleted,
\* the members the card has for a MembersAssigned; and no step sends a
\* notice for a completion or a member that the stored state already has.
C34_UndeliveredNoticeIsLost ==
    /\ [](Examined =>
            \A i \in 1..Len(events) :
                ~events[i].delivered =>
                    last_known_states[last.key] =
                        IF events[i].type = "CardCompleted"
                        THEN [completed |-> TRUE, list_id |-> last.card.idList,
                              members |-> last.prev.members]
                        ELSE [completed |-> FALSE, list_id |-> last.card.idList,
                              members |-> last.card.members])
    /\ [][\A i \in 1..Len(events') :
              IF events'[i].type = "CardCompleted"
              THEN ~last_known_states[events'[i].key].completed
              ELSE \A m \in events'[i].members :
                      m \notin last_known_states[events'[i].key].members]_vars

\* send_message has given up on the notice of a card found completed, and
\* the card is stored as completed.
C34_Witness ==
    /\ Examined
    /\ Len(events) = 1
    /\ events[1].type = "CardCompleted"
    /\ ~events[1].delivered
    /\ last_known_states[last.key].completed

\* send_message has given up on the notice of a new member, and the member
\* is stored with the card.
C34_MemberNoticeLost ==
    /\ Examined
    /\ Len(events) = 1
    /\ events[1].type = "MembersAssigned"
    /\ ~events[1].delivered
    /\ events[1].members \subseteq last_known_states[last.key].members

\* The last publish unpinned every record of its chat and then could not
\* send the report.
UnpinnedThenSendFailed ==
    pub # None /\ AllUnpinsOk /\ pub.send_tried /\ pub.sent = None

\* C35: the old records are unpinned and removed before the report is
\* sent.  A publish whose unpins all succeed and whose send then fails has
\* attempted the unpin of every record the chat had, leaves the chat with
\* no record and attempts no pin; and the publish that follows it for the
\* same chat finds no record and appends no previous-report link.
C35_SendFailureLeavesNoRecord ==
    /\ [](UnpinnedThenSendFailed =>
            /\ RecordsOf(pub.chat_id) = {}
            /\ pub.unpin_tried =
                  [i \in 1..Len(pub.before) |-> pub.before[i].message_id]
            /\ ~pub.pin_tried)
    /\ [][(UnpinnedThenSendFailed /\ pub' # None /\ pub' # pub
              /\ pub'.chat_id = pub.chat_id) =>
            (pub'.before = <<>> /\ pub'.link = NoUrl)]_vars

\* A chat that had a pinned report with a link to it, and a publish that
\* unpinned it and then failed to send.
C35_Witness ==
    /\ UnpinnedThenSendFailed
    /\ pub.before # <<>>
    /\ pub.link # NoUrl
    /\ RecordsOf(pub.chat_id) = {}

\* A report delivered without a link to a chat that had reports before.
C35_NextReportWithoutLink ==
    /\ pub # None
    /\ pub.sent # None
    /\ pub.sent.message_id > 1
    /\ pub.before = <<>>
    /\ pub.link = NoUrl

\* The state this poll leaves for a card it examined to the end.
ReflectsPoll(state, card) ==
    IF InDoneList(card)
    THEN state.completed
    ELSE state = not_completed_state(card)

\* C36: when the body of the loop raises for a card, that step changes no
\* card state (neither of the card nor of the cards after it in the board's
\* answer) and sends no notification, the cards after it are
\* not examined in this cycle, the state of the card examined just before
\* it is the one this poll gave it, and the loop goes on to the next
\* board, or to the end of the cycle after the last board.
C36_RaisingCardSkipsRest ==
    /\ []((last # None /\ last.raised) =>
            /\ events = <<>>
            /\ current_cards = <<>>
            /\ IF last.prev = None
               THEN last.key \notin DOMAIN last_known_states
               ELSE last_known_states[last.key] = last.prev
            /\ poll_pc \in {"fetch", "idle"})
    /\ [][(poll_pc = "cards" /\ last' # None /\ last'.raised) =>
            /\ last_known_states' = last_known_states
            /\ last'.skipped = Tail(current_cards)
            /\ (last # None =>
                  ReflectsPoll(last_known_states'[last.key], last.card))
            /\ IF board_idx < Len(board_ids)
               THEN poll_pc' = "fetch" /\ board_idx' = board_idx + 1
               ELSE poll_pc' = "idle"]_vars

\* The first card of board b1 raised with another card after it in the
\* answer, and the poll goes on to board b2.
C36_Witness ==
    /\ last # None
    /\ last.raised
    /\ last.skipped # <<>>
    /\ poll_pc = "fetch"
    /\ board_idx = 2

\* The second card of board b1 raised after the first one was found
\* completed and notified.
C36_RaisedAfterNotice ==
    /\ last # None
    /\ last.raised
    /\ \E e \in last.earlier : e.type = "CardCompleted"
    /\ \E k \in DOMAIN last_known_states : last_known_states[k].completed

\* C37: a command from a chat other than the peer chat makes the bot send
\* no message and call neither pin nor unpin, and the step that handles it
\* changes no stored pin record, no tracked card and no generated report.
C37_StrangersAreIgnored ==
    /\ []((chat_log # None /\ str(chat_log.chat_id) # PEER_ID) =>
            /\ chat_log.sends = 0
            /\ chat_log.pins = 0
            /\ chat_log.unpins = 0)
    /\ [][(chat_log' # chat_log /\ chat_log' # None
              /\ str(chat_log'.chat_id) # PEER_ID) =>
            /\ pinned_messages' = pinned_messages
            /\ next_message_id' = next_message_id
            /\ card_states' = card_states
            /\ rep' = rep]_vars

\* /ct from a stranger while the peer chat and the report group have a
\* stored pin record each.
C37_Witness ==
    /\ chat_log # None
    /\ chat_log.command = "ct"
    /\ chat_log.chat_id = 9
    /\ RecordsOf(PEER_ID) # {}
    /\ RecordsOf(REPORT_CHAT_ID) # {}

\* /clear_stored from the report group, which has a stored pin record.
C37_ClearFromReportGroup ==
    /\ chat_log # None
    /\ chat_log.command = "clear_stored"
    /\ chat_log.chat_id = -1008
    /\ RecordsOf(REPORT_CHAT_ID) # {}

\* /ct from the peer chat: a report sent and pinned, the old one unpinned.
C37_PeerIsServed ==
    /\ chat_log # None
    /\ chat_log.command = "ct"
    /\ chat_log.chat_id = 7
    /\ chat_log.sends = 1
    /\ chat_log.pins = 1
    /\ chat_log.unpins = 1

\* The loads of the last publish failed and it saved the record of the
\* report it pinned.
SavedAfterFailedLoad ==
    load_seen.truncated /\ pub # None /\ pub.pin_tried /\ pub.pin_ok

\* The load of the last run of the tracker failed.
TrackedAfterFailedLoad ==
    rep # None /\ rep.op = "daily" /\ rep.loaded.truncated

\* C38: a load of a document that does not parse returns the empty default
\* and the operation goes on.  The publish finds no stored record and no
\* previous report, and the record it adds is then the only one in the
\* pinned-message document: none of the records the file listed is kept.
\* The tracker starts from an empty map, and every entry of the
\* card-progress document it saves was created in that run.
C38_FailedLoadDropsRecords ==
    /\ SavedAfterFailedLoad =>
          /\ pub.before = <<>>
          /\ pub.link = NoUrl
          /\ Len(pinned_messages) = 1
          /\ pinned_messages[1].chat_id = pub.chat_id
          /\ pinned_messages[1].message_id = pub.sent.message_id
          /\ \A i \in 1..Len(load_seen.messages) :
                load_seen.messages[i] # pinned_messages[1]
    /\ TrackedAfterFailedLoad =>
          \A k \in DOMAIN card_states : card_states[k].started_at = rep.at

\* A daily report that found both documents unreadable: the pinned-message
\* file listed a record and the card-progress file an entry of a card that
\* is still in progress, which is now tracked since a later time.
C38_Witness ==
    /\ SavedAfterFailedLoad
    /\ load_seen.messages # <<>>
    /\ TrackedAfterFailedLoad
    /\ \E k \in DOMAIN rep.loaded.messages \cap DOMAIN card_states :
          rep.loaded.messages[k].started_at < card_states[k].started_at

\* /ct after the pinned-message file was damaged: the record of the report
\* group is gone with that of the peer chat.
C38_OtherChatDropped ==
    /\ SavedAfterFailedLoad
    /\ pub.chat_id = PEER_ID
    /\ \E i \in 1..Len(load_seen.messages) :
          load_seen.messages[i].chat_id = REPORT_CHAT_ID
    /\ RecordsOf(REPORT_CHAT_ID) = {}

====
